---- MODULE Spec2Model ----
(***************************************************************************)
(* A model of the random-number device layer of rng_tui: the four backend  *)
(* modules (bitbabbler_rng, truerng, intel_seed, pseudo_rng), their        *)
(* single-worker executors and asynchronous wrappers, the BitBabbler       *)
(* device cache, the chunked/folded entropy read and the MPSSE bring-up.   *)
(*                                                                         *)
(* Three specifications share the module:                                  *)
(*   Spec       the concurrency bridge of one backend (chosen in Init):    *)
(*              event-loop thread, worker threads, device cache, handles   *)
(*   SpecBytes  one synchronous get_bytes(n, folds) call, read by read     *)
(*   SpecOpen   one BitBabbler.open(): discovery and MPSSE bring-up        *)
(***************************************************************************)
EXTENDS Integers, Sequences, FiniteSets, TLC

(***************************************************************************)
(* Bounds of the model.                                                    *)
(***************************************************************************)
MaxCalls == 2       \* asynchronous calls submitted in one behaviour of Spec
MaxCallsLong == 3   \* asynchronous calls submitted in one behaviour of SpecLong
MaxExecutors == 2   \* executors that exist in one behaviour
MaxHandles == 2     \* device handles opened in one behaviour

Backends == {"bitbabbler_rng", "truerng", "intel_seed", "pseudo_rng"}

\* intel_seed and pseudo_rng submit through _get_executor(), which replaces a
\* shut-down executor; bitbabbler_rng and truerng use the module's _executor.
Recreating == {"intel_seed", "pseudo_rng"}

\* Backends that keep a module-level cache (_cached_device, _rdseed).
Caching == {"bitbabbler_rng", "intel_seed"}

VARIABLES
    backend,        \* the backend module this behaviour exercises
    executor,       \* the module-level _executor (index of an executor)
    numExec,        \* executors created so far
    shutdownFlag,   \* executor -> its _shutdown flag
    queue,          \* executor -> its work queue (call ids, FIFO)
    running,        \* executor -> call its worker thread is executing, or 0
    calls,          \* the asynchronous calls, in submission order
    cached_device,  \* _cached_device / _rdseed: 0 is None, else a handle
    handle,         \* handle -> "unborn", "live" or "released"
    failed,         \* handles on which a read has failed
    loopPc,         \* what the event-loop thread is blocked in
    loopSite,       \* call whose wrapper runs the loop's close(), 0 for the UI
    loopDev,        \* handle the event-loop thread is operating on
    accessors,      \* threads that have read or written the cache
    \* ---- SpecBytes ----
    gb,             \* state of one synchronous get_bytes call
    \* ---- SpecOpen ----
    bu,             \* state of one BitBabbler.open() call
    \* ---- SpecRead ----
    rd,             \* state of one BitBabbler.read_entropy call
    \* ---- SpecApi ----
    api,            \* state of one synchronous API call
    \* ---- SpecStream ----
    st,             \* state of one handle's read_data calls, byte by byte
    \* ---- SpecFold ----
    fo,             \* state of one fold_bytes call on a byte buffer
    \* ---- SpecDiscover ----
    fd,             \* state of one device discovery: find, then find_any_bitbabbler
    \* ---- SpecDriver ----
    dr,             \* state of one BitBabbler object: construction, configuration, read_entropy calls
    \* ---- SpecApp ----
    app             \* state of RNGCollectorApp: collection flags, task, counters

bridgeVars == <<backend, executor, numExec, shutdownFlag, queue, running,
                calls, cached_device, handle, failed, loopPc, loopSite,
                loopDev, accessors>>
\* The variables of the single-call specifications, and for each of them the
\* variables of the others.
callVars == <<gb, bu, rd, api, st, fo, fd, dr, app>>
exceptGb == <<bu, rd, api, st, fo, fd, dr, app>>
exceptBu == <<gb, rd, api, st, fo, fd, dr, app>>
exceptRd == <<gb, bu, api, st, fo, fd, dr, app>>
exceptApi == <<gb, bu, rd, st, fo, fd, dr, app>>
exceptSt == <<gb, bu, rd, api, fo, fd, dr, app>>
exceptFo == <<gb, bu, rd, api, st, fd, dr, app>>
exceptFd == <<gb, bu, rd, api, st, fo, dr, app>>
exceptDr == <<gb, bu, rd, api, st, fo, fd, app>>
exceptApp == <<gb, bu, rd, api, st, fo, fd, dr>>
vars == <<bridgeVars, callVars>>

Executors == 1..MaxExecutors
Handles == 1..MaxHandles
CallIds == 1..Len(calls)

\* The variables of a specification that is not running keep these values.
GbIdle == [pc |-> "off"]
BuIdle == [pc |-> "off"]
RdIdle == [pc |-> "off"]
ApiIdle == [pc |-> "off"]
StIdle == [pc |-> "off"]
FoIdle == [pc |-> "off"]
FdIdle == [pc |-> "off"]
DrIdle == [pc |-> "off"]
AppIdle == [pc |-> "off"]
ExceptGbIdle ==
    /\ bu = BuIdle
    /\ rd = RdIdle
    /\ api = ApiIdle
    /\ st = StIdle
    /\ fo = FoIdle
    /\ fd = FdIdle
    /\ dr = DrIdle
    /\ app = AppIdle
ExceptBuIdle ==
    /\ gb = GbIdle
    /\ rd = RdIdle
    /\ api = ApiIdle
    /\ st = StIdle
    /\ fo = FoIdle
    /\ fd = FdIdle
    /\ dr = DrIdle
    /\ app = AppIdle
ExceptRdIdle ==
    /\ gb = GbIdle
    /\ bu = BuIdle
    /\ api = ApiIdle
    /\ st = StIdle
    /\ fo = FoIdle
    /\ fd = FdIdle
    /\ dr = DrIdle
    /\ app = AppIdle
ExceptApiIdle ==
    /\ gb = GbIdle
    /\ bu = BuIdle
    /\ rd = RdIdle
    /\ st = StIdle
    /\ fo = FoIdle
    /\ fd = FdIdle
    /\ dr = DrIdle
    /\ app = AppIdle
ExceptStIdle ==
    /\ gb = GbIdle
    /\ bu = BuIdle
    /\ rd = RdIdle
    /\ api = ApiIdle
    /\ fo = FoIdle
    /\ fd = FdIdle
    /\ dr = DrIdle
    /\ app = AppIdle
ExceptFoIdle ==
    /\ gb = GbIdle
    /\ bu = BuIdle
    /\ rd = RdIdle
    /\ api = ApiIdle
    /\ st = StIdle
    /\ fd = FdIdle
    /\ dr = DrIdle
    /\ app = AppIdle
ExceptFdIdle ==
    /\ gb = GbIdle
    /\ bu = BuIdle
    /\ rd = RdIdle
    /\ api = ApiIdle
    /\ st = StIdle
    /\ fo = FoIdle
    /\ dr = DrIdle
    /\ app = AppIdle
ExceptDrIdle ==
    /\ gb = GbIdle
    /\ bu = BuIdle
    /\ rd = RdIdle
    /\ api = ApiIdle
    /\ st = StIdle
    /\ fo = FoIdle
    /\ fd = FdIdle
    /\ app = AppIdle
ExceptAppIdle ==
    /\ gb = GbIdle
    /\ bu = BuIdle
    /\ rd = RdIdle
    /\ api = ApiIdle
    /\ st = StIdle
    /\ fo = FoIdle
    /\ fd = FdIdle
    /\ dr = DrIdle

BridgeIdle ==
    /\ backend = "none"
    /\ executor = 1
    /\ numExec = 1
    /\ shutdownFlag = [e \in Executors |-> FALSE]
    /\ queue = [e \in Executors |-> <<>>]
    /\ running = [e \in Executors |-> 0]
    /\ calls = <<>>
    /\ cached_device = 0
    /\ handle = [h \in Handles |-> "unborn"]
    /\ failed = {}
    /\ loopPc = "idle"
    /\ loopSite = 0
    /\ loopDev = 0
    /\ accessors = {}

(***************************************************************************)
(* Spec: the concurrency bridge.                                           *)
(***************************************************************************)
Init ==
    /\ backend \in Backends
    /\ executor = 1
    /\ numExec = 1
    /\ shutdownFlag = [e \in Executors |-> FALSE]
    /\ queue = [e \in Executors |-> <<>>]
    /\ running = [e \in Executors |-> 0]
    /\ calls = <<>>
    /\ cached_device = 0
    /\ handle = [h \in Handles |-> "unborn"]
    /\ failed = {}
    /\ loopPc = "idle"
    /\ loopSite = 0
    /\ loopDev = 0
    /\ accessors = {}
    /\ gb = GbIdle
    /\ ExceptGbIdle

\* A fresh handle, if the bound leaves one.
FreshHandles == {h \in Handles : handle[h] = "unborn"}
NewHandle == CHOOSE h \in FreshHandles : \A g \in FreshHandles : h <= g

NewCall(fn, e, fut) ==
    [fn |-> fn, exec |-> e, fut |-> fut, pc |-> "idle", dev |-> 0,
     res |-> "none", task |-> IF fut = "rejected" THEN "done" ELSE "awaiting",
     outcome |-> IF fut = "rejected" THEN "error" ELSE "none",
     closes |-> 0, cancelled |-> FALSE]

\* loop.run_in_executor(<executor>, fn, ...): the executor the wrapper of this
\* backend submits to.  _get_executor() replaces a shut-down executor;
\* the plain module-level _executor is used as it is.
NeedsNewExecutor == backend \in Recreating /\ shutdownFlag[executor]

run_in_executor(fn, limit) ==
    /\ loopPc = "idle"
    /\ Len(calls) < limit
    /\ IF NeedsNewExecutor
       THEN /\ numExec < MaxExecutors
            /\ numExec' = numExec + 1
            /\ executor' = numExec + 1
            /\ calls' = Append(calls, NewCall(fn, numExec + 1, "pending"))
            /\ queue' = [queue EXCEPT ![numExec + 1] = Append(@, Len(calls) + 1)]
       ELSE /\ UNCHANGED <<numExec, executor>>
            /\ IF shutdownFlag[executor]
               THEN \* submit() raises: cannot schedule new futures after shutdown
                    /\ calls' = Append(calls, NewCall(fn, executor, "rejected"))
                    /\ UNCHANGED queue
               ELSE /\ calls' = Append(calls, NewCall(fn, executor, "pending"))
                    /\ queue' = [queue EXCEPT
                                  ![executor] = Append(@, Len(calls) + 1)]
    /\ UNCHANGED <<backend, shutdownFlag, running, cached_device, handle,
                   failed, loopPc, loopSite, loopDev, accessors, callVars>>

\* get_bytes_async (and get_bits_async, get_exact_bits_async, random_int_async,
\* whose wrappers are the same): submit the synchronous call and suspend.
get_bytes_async(limit) == run_in_executor("get_bytes", limit)

\* close_async: submit close() and suspend.
close_async(limit) == run_in_executor("close", limit)

(***************************************************************************)
(* close(): what it does to the cache and the handles, by backend.         *)
(*   bitbabbler_rng  if a device is cached: close it, clear the cache,     *)
(*                   sleep; the device close takes time (CloseDevice)      *)
(*   intel_seed      drop the global instance                              *)
(*   truerng, pseudo_rng   nothing                                         *)
(***************************************************************************)
\* close() returns without a device close: nothing is cached, or the backend
\* has no device to close.
CloseImmediate == backend # "bitbabbler_rng" \/ cached_device = 0

CloseNoDevice(thread) ==
    /\ cached_device' = IF backend = "intel_seed" THEN 0 ELSE cached_device
    /\ handle' = IF backend = "intel_seed" /\ cached_device # 0
                 THEN [handle EXCEPT ![cached_device] = "released"]
                 ELSE handle
    /\ accessors' = IF backend \in Caching THEN accessors \cup {thread}
                    ELSE accessors

\* _cached_device.close(); _cached_device = None
CloseDevice(thread, h) ==
    /\ handle' = [handle EXCEPT ![h] = "released"]
    /\ cached_device' = 0
    /\ accessors' = accessors \cup {thread}

(***************************************************************************)
(* The worker thread of executor e.                                        *)
(***************************************************************************)
\* Mutant of WorkerFree: a pool that starts a work item while another runs.
WorkerFree_second_worker(e) == e \in Executors

\* The worker has nothing in hand: max_workers=1, one work item at a time.
WorkerFree(e) == running[e] = 0

\* The worker takes the next work item.  A future cancelled while it was
\* queued is dropped without running its function.
worker_take(e) ==
    /\ e <= numExec
    /\ WorkerFree(e)
    /\ queue[e] # <<>>
    /\ LET c == Head(queue[e]) IN
       /\ queue' = [queue EXCEPT ![e] = Tail(@)]
       /\ IF calls[c].fut = "cancelled"
          THEN UNCHANGED <<running, calls>>
          ELSE /\ running' = [running EXCEPT ![e] = c]
               /\ calls' = [calls EXCEPT ![c].fut = "running", ![c].pc = "start"]
    /\ UNCHANGED <<backend, executor, numExec, shutdownFlag, cached_device,
                   handle, failed, loopPc, loopSite, loopDev, accessors,
                   callVars>>

\* The synchronous function returns or raises: the future is finished and the
\* worker is free again.
Finished(c, result) ==
    [calls EXCEPT ![c].fut = "finished", ![c].pc = "done", ![c].res = result]

\* get_bytes up to the cache lookup (_get_device, get_rdseed, _find_port).
get_bytes_start(e) ==
    /\ e <= numExec
    /\ running[e] # 0
    /\ LET c == running[e] IN
       /\ calls[c].fn = "get_bytes"
       /\ calls[c].pc = "start"
       /\ IF backend \in Caching
          THEN /\ accessors' = accessors \cup {"worker"}
               /\ IF cached_device # 0
                  THEN calls' = [calls EXCEPT ![c].pc = "read",
                                              ![c].dev = cached_device]
                  ELSE calls' = [calls EXCEPT ![c].pc = "open"]
          ELSE /\ UNCHANGED accessors
               /\ calls' = [calls EXCEPT
                              ![c].pc = IF backend = "truerng" THEN "open"
                                        ELSE "read"]
    /\ UNCHANGED <<backend, executor, numExec, shutdownFlag, queue, running,
                   cached_device, handle, failed, loopPc, loopSite, loopDev,
                   callVars>>

\* The open in get_bytes ends: BitBabbler.open() (discovery and bring-up),
\* IntelSeed() or serial.Serial().  "initfail" is a BitBabbler whose discovery
\* found a device and whose bring-up failed: open() raises and the transport
\* handle it found is not closed.
OpenOutcomes ==
    IF backend = "bitbabbler_rng" THEN {"ok", "notfound", "initfail"}
    ELSE {"ok", "notfound"}

get_bytes_open(e) ==
    /\ e <= numExec
    /\ running[e] # 0
    /\ LET c == running[e] IN
       /\ calls[c].fn = "get_bytes"
       /\ calls[c].pc = "open"
       /\ \E o \in OpenOutcomes :
          /\ o # "notfound" => FreshHandles # {}
          /\ IF o = "ok"
             THEN /\ handle' = [handle EXCEPT ![NewHandle] = "live"]
                  /\ calls' = [calls EXCEPT ![c].pc = "read", ![c].dev = NewHandle]
                  /\ UNCHANGED running
                  /\ IF backend \in Caching
                     THEN /\ cached_device' = NewHandle
                          /\ accessors' = accessors \cup {"worker"}
                     ELSE UNCHANGED <<cached_device, accessors>>
             ELSE /\ handle' = IF o = "initfail"
                               THEN [handle EXCEPT ![NewHandle] = "live"]
                               ELSE handle
                  /\ calls' = Finished(c, "error")
                  /\ running' = [running EXCEPT ![e] = 0]
                  /\ UNCHANGED <<cached_device, accessors>>
    /\ UNCHANGED <<backend, executor, numExec, shutdownFlag, queue, failed,
                   loopPc, loopSite, loopDev, callVars>>

\* Mutant of CacheAfterReadError: the handler raises without resetting the cache.
CacheAfterReadError_kept == cached_device

\* What get_bytes does to the cache when the read raised.  BitBabbler resets
\* the cache (except Exception: _cached_device = None); the others leave it.
CacheAfterReadError ==
    IF backend = "bitbabbler_rng" THEN 0 ELSE cached_device

\* The read in get_bytes ends, with the bytes or with an exception.
get_bytes_read(e) ==
    /\ e <= numExec
    /\ running[e] # 0
    /\ LET c == running[e] IN
       /\ calls[c].fn = "get_bytes"
       /\ calls[c].pc = "read"
       /\ \E ok \in BOOLEAN :
          /\ backend = "pseudo_rng" => ok
          /\ calls' = Finished(c, IF ok THEN "value" ELSE "error")
          /\ running' = [running EXCEPT ![e] = 0]
          /\ failed' = IF ok \/ calls[c].dev = 0 THEN failed
                       ELSE failed \cup {calls[c].dev}
          /\ cached_device' = IF ok THEN cached_device ELSE CacheAfterReadError
          /\ accessors' = IF ~ok /\ backend = "bitbabbler_rng"
                          THEN accessors \cup {"worker"} ELSE accessors
          /\ handle' = IF backend = "truerng"
                       THEN [handle EXCEPT ![calls[c].dev] = "released"]
                       ELSE handle
    /\ UNCHANGED <<backend, executor, numExec, shutdownFlag, queue, loopPc,
                   loopSite, loopDev, callVars>>

\* close() run on the worker (submitted by close_async).
worker_close(e) ==
    /\ e <= numExec
    /\ running[e] # 0
    /\ LET c == running[e] IN
       /\ calls[c].fn = "close"
       /\ calls[c].pc = "start"
       /\ IF CloseImmediate
          THEN /\ CloseNoDevice("worker")
               /\ calls' = Finished(c, "value")
               /\ running' = [running EXCEPT ![e] = 0]
          ELSE /\ accessors' = accessors \cup {"worker"}
               /\ calls' = [calls EXCEPT ![c].pc = "close_dev",
                                           ![c].dev = cached_device]
               /\ UNCHANGED <<cached_device, handle, running>>
    /\ UNCHANGED <<backend, executor, numExec, shutdownFlag, queue, failed,
                   loopPc, loopSite, loopDev, callVars>>

worker_close_end(e) ==
    /\ e <= numExec
    /\ running[e] # 0
    /\ LET c == running[e] IN
       /\ calls[c].pc = "close_dev"
       /\ CloseDevice("worker", calls[c].dev)
       /\ calls' = Finished(c, "value")
       /\ running' = [running EXCEPT ![e] = 0]
    /\ UNCHANGED <<backend, executor, numExec, shutdownFlag, queue, failed,
                   loopPc, loopSite, loopDev, callVars>>

(***************************************************************************)
(* The event-loop thread: the asynchronous wrappers and the callers'       *)
(* synchronous close() / is_device_available() (RNGCollectorApp's          *)
(* action_start and action_stop call them on this thread).                 *)
(***************************************************************************)
\* The caller cancels the task awaiting call c (collection_task.cancel()).
\* A future still queued is cancelled and its function never runs; a function
\* already running on the worker is left alone.  Either way CancelledError is
\* thrown into the wrapper at its await.
task_cancel(c) ==
    /\ loopPc = "idle"
    /\ c \in CallIds
    /\ calls[c].task = "awaiting"
    /\ calls' = [calls EXCEPT ![c].task = "must_cancel",
                              ![c].cancelled = TRUE,
                              ![c].fut = IF @ = "pending" THEN "cancelled" ELSE @]
    /\ UNCHANGED <<backend, executor, numExec, shutdownFlag, queue, running,
                   cached_device, handle, failed, loopPc, loopSite, loopDev,
                   accessors, callVars>>

\* Mutant of Reraised: the handler re-raises without having run close().
Reraised_without_close(c) ==
    [calls EXCEPT ![c].task = "done", ![c].outcome = "cancelled"]

\* The wrapper's handler has run close() to its end: it re-raises.
Reraised(c) ==
    [calls EXCEPT ![c].task = "done", ![c].outcome = "cancelled",
                  ![c].closes = @ + 1]

\* except asyncio.CancelledError: close(); raise        (the data wrappers)
get_bytes_async_cancelled(c) ==
    /\ loopPc = "idle"
    /\ c \in CallIds
    /\ calls[c].task = "must_cancel"
    /\ calls[c].fn = "get_bytes"
    /\ IF CloseImmediate
       THEN /\ CloseNoDevice("loop")
            /\ calls' = Reraised(c)
            /\ UNCHANGED <<loopPc, loopSite, loopDev>>
       ELSE /\ accessors' = accessors \cup {"loop"}
            /\ loopPc' = "close_dev"
            /\ loopSite' = c
            /\ loopDev' = cached_device
            /\ UNCHANGED <<cached_device, handle, calls>>
    /\ UNCHANGED <<backend, executor, numExec, shutdownFlag, queue, running,
                   failed, callVars>>

\* The device close begun by a close() on the event-loop thread ends.
loop_close_end ==
    /\ loopPc = "close_dev"
    /\ CloseDevice("loop", loopDev)
    /\ loopPc' = "idle"
    /\ loopSite' = 0
    /\ loopDev' = 0
    /\ calls' = IF loopSite # 0 THEN Reraised(loopSite) ELSE calls
    /\ UNCHANGED <<backend, executor, numExec, shutdownFlag, queue, running,
                   failed, callVars>>

\* The await of a finished call returns its value or raises its exception.
get_bytes_async_return(c) ==
    /\ loopPc = "idle"
    /\ c \in CallIds
    /\ calls[c].task = "awaiting"
    /\ calls[c].fut = "finished"
    /\ calls[c].fn = "get_bytes"
    /\ calls' = [calls EXCEPT ![c].task = "done", ![c].outcome = calls[c].res]
    /\ UNCHANGED <<backend, executor, numExec, shutdownFlag, queue, running,
                   cached_device, handle, failed, loopPc, loopSite, loopDev,
                   accessors, callVars>>

\* close_async's finally: _executor.shutdown(wait=False), reached when the
\* awaited close() has finished or when the task was cancelled.  The worker
\* keeps running what is queued.
close_async_finally(c) ==
    /\ loopPc = "idle"
    /\ c \in CallIds
    /\ calls[c].fn = "close"
    /\ \/ calls[c].task = "awaiting" /\ calls[c].fut = "finished"
       \/ calls[c].task = "must_cancel"
    /\ calls' = [calls EXCEPT ![c].task = "done",
                   ![c].outcome = IF calls[c].task = "must_cancel"
                                  THEN "cancelled" ELSE calls[c].res]
    /\ shutdownFlag' = [shutdownFlag EXCEPT ![executor] = TRUE]
    /\ UNCHANGED <<backend, executor, numExec, queue, running, cached_device,
                   handle, failed, loopPc, loopSite, loopDev, accessors,
                   callVars>>

\* close() called on the event-loop thread by action_start / action_stop
\* (only for bitbabbler_rng and intel_seed).
close ==
    /\ loopPc = "idle"
    /\ backend \in Caching
    /\ IF CloseImmediate
       THEN /\ CloseNoDevice("loop")
            /\ UNCHANGED <<loopPc, loopSite, loopDev>>
       ELSE /\ accessors' = accessors \cup {"loop"}
            /\ loopPc' = "close_dev"
            /\ loopSite' = 0
            /\ loopDev' = cached_device
            /\ UNCHANGED <<cached_device, handle>>
    /\ UNCHANGED <<backend, executor, numExec, shutdownFlag, queue, running,
                   calls, failed, callVars>>

\* is_device_available() called on the event-loop thread by action_start.
\* BitBabbler opens a device of its own, whatever the cache holds; IntelSeed
\* constructs an instance and reads one byte; TrueRNG enumerates the ports;
\* the software backend returns True.
is_device_available ==
    /\ loopPc = "idle"
    /\ loopPc' = IF backend = "pseudo_rng" THEN "idle" ELSE "avail_open"
    /\ UNCHANGED <<backend, executor, numExec, shutdownFlag, queue, running,
                   calls, cached_device, handle, failed, loopSite, loopDev,
                   accessors, callVars>>

\* The probe of is_device_available ends.  BitBabbler: the device it opened
\* is closed next ("ok"), or open() raised ("notfound", "initfail").
is_device_available_opened ==
    /\ loopPc = "avail_open"
    /\ \E o \in OpenOutcomes :
       /\ (backend = "bitbabbler_rng" /\ o # "notfound") => FreshHandles # {}
       /\ IF backend = "bitbabbler_rng" /\ o # "notfound"
          THEN /\ handle' = [handle EXCEPT ![NewHandle] = "live"]
               /\ loopPc' = IF o = "ok" THEN "avail_close" ELSE "idle"
               /\ loopDev' = IF o = "ok" THEN NewHandle ELSE 0
          ELSE /\ loopPc' = "idle"
               /\ UNCHANGED <<handle, loopDev>>
    /\ UNCHANGED <<backend, executor, numExec, shutdownFlag, queue, running,
                   calls, cached_device, failed, loopSite, accessors, callVars>>

\* finally: bb.close()
is_device_available_close ==
    /\ loopPc = "avail_close"
    /\ handle' = [handle EXCEPT ![loopDev] = "released"]
    /\ loopPc' = "idle"
    /\ loopDev' = 0
    /\ UNCHANGED <<backend, executor, numExec, shutdownFlag, queue, running,
                   calls, cached_device, failed, loopSite, accessors, callVars>>

Step(limit) ==
    \/ get_bytes_async(limit)
    \/ close_async(limit)
    \/ \E e \in Executors : worker_take(e)
    \/ \E e \in Executors : get_bytes_start(e)
    \/ \E e \in Executors : get_bytes_open(e)
    \/ \E e \in Executors : get_bytes_read(e)
    \/ \E e \in Executors : worker_close(e)
    \/ \E e \in Executors : worker_close_end(e)
    \/ \E c \in CallIds : task_cancel(c)
    \/ \E c \in CallIds : get_bytes_async_cancelled(c)
    \/ \E c \in CallIds : get_bytes_async_return(c)
    \/ \E c \in CallIds : close_async_finally(c)
    \/ loop_close_end
    \/ close
    \/ is_device_available
    \/ is_device_available_opened
    \/ is_device_available_close

Next == Step(MaxCalls)

Spec == Init /\ [][Next]_vars

\* The same program with one more call in a behaviour.
NextLong == Step(MaxCallsLong)

SpecLong == Init /\ [][NextLong]_vars

(***************************************************************************)
(* SpecBytes: one synchronous get_bytes(n, folds), read by read.  Byte     *)
(* strings are modelled by their lengths.                                  *)
(***************************************************************************)
ReadLimit == 65536  \* read_entropy accepts 1..65536 bytes
MaxFolds == 4       \* folds must be 0..4
MaxSmallN == 3      \* bound: the small request sizes tried

Min(a, b) == IF a < b THEN a ELSE b
Max(a, b) == IF a > b THEN a ELSE b

\* Mutant of ShiftRight: the output chunk is not scaled down by the fold level.
ShiftRight_unscaled(x, k) == x

ShiftRight(x, k) == x \div (2 ^ k)
ShiftLeft(x, k) == x * (2 ^ k)

\* Request sizes: invalid, small, around the single-read limit, and beyond it.
NValues ==
    (-1..MaxSmallN) \cup
    {ReadLimit - 1, ReadLimit, ReadLimit + 1, 100000, 2 * ReadLimit + 1}

FoldValues == -1..(MaxFolds + 1)

\* Length of fold_bytes(data, folds) for len(data) = length; -1 is ValueError.
RECURSIVE FoldLoop(_, _)
FoldLoop(length, k) == IF k = 0 THEN length ELSE FoldLoop(length \div 2, k - 1)

fold_bytes(length, folds) ==
    IF folds <= 0 THEN length
    ELSE IF length % (2 ^ folds) # 0 THEN -1
    ELSE FoldLoop(length, folds)

\* fold_bytes on a buffer of `length` bytes that are all zero except a 0x01
\* at index p (p = -1: no such byte): the index of the 0x01 in the result.
\* Each fold XORs the second half into the first half.
RECURSIVE fold_mark(_, _, _)
fold_mark(p, length, folds) ==
    IF folds <= 0 \/ p < 0 THEN p
    ELSE LET half == length \div 2 IN
         fold_mark(IF p >= half THEN p - half ELSE p, half, folds - 1)

\* The function called: the backend's get_bytes, or the driver's
\* read_entropy_folded on an open BitBabbler.
Entries == {"get_bytes", "read_entropy_folded"}

\* Where the device's raw byte stream holds its single 0x01 byte (-1: nowhere).
MarkValues == {-1, 0, ReadLimit \div 2, ReadLimit, 200000}

\* read_entropy(nbytes) accepts the request (else ValueError).
read_entropy_accepts(nbytes) == nbytes >= 1 /\ nbytes <= ReadLimit

InitBytes ==
    /\ BridgeIdle
    /\ ExceptGbIdle
    /\ \E b \in Backends, n \in NValues, f \in FoldValues, p \in BOOLEAN,
          e \in Entries, m \in MarkValues :
          /\ b # "bitbabbler_rng" => f = 0 /\ e = "get_bytes" /\ m = -1
          /\ e = "read_entropy_folded" => p
          /\ gb = [pc |-> IF e = "get_bytes" THEN "call" ELSE "read",
                   entry |-> e, backend |-> b, n |-> n, folds |-> f,
                   present |-> p,
                   remain |-> IF e = "get_bytes" THEN 0 ELSE n,
                   out |-> 0, reads |-> 0, lastRaw |-> 0, rawTotal |-> 0,
                   mark |-> m, outMark |-> -1, fault |-> FALSE,
                   result |-> "none", len |-> 0, port |-> "none"]

Raised(kind) == [gb EXCEPT !.pc = "done", !.result = kind]
Returned(length) == [gb EXCEPT !.pc = "done", !.result = "ok", !.len = length]

\* get_bytes up to its first read: argument checks and device lookup.
\* intel_seed builds its instance (get_rdseed) before it looks at n.
get_bytes ==
    /\ gb.pc = "call"
    /\ gb' = CASE gb.backend = "intel_seed" /\ ~gb.present -> Raised("error")
               [] gb.n <= 0 -> Raised("invalid")
               [] gb.backend = "bitbabbler_rng"
                  /\ (gb.folds < 0 \/ gb.folds > MaxFolds) -> Raised("invalid")
               [] gb.backend # "pseudo_rng" /\ ~gb.present -> Raised("error")
               [] gb.backend = "truerng" ->
                     [gb EXCEPT !.pc = "serial", !.remain = gb.n]
               [] OTHER -> [gb EXCEPT !.pc = "read", !.remain = gb.n]
    /\ UNCHANGED <<bridgeVars, exceptGb>>

\* dev.read_entropy(n): the unfolded read of BitBabbler's get_bytes.
read_entropy ==
    /\ gb.pc = "read"
    /\ gb.backend = "bitbabbler_rng"
    /\ gb.entry = "get_bytes"
    /\ gb.folds = 0
    /\ IF ~read_entropy_accepts(gb.n)
       THEN gb' = Raised("error")
       ELSE \E ok \in BOOLEAN :
               gb' = IF ok
                     THEN [Returned(gb.n) EXCEPT
                             !.reads = 1, !.lastRaw = gb.n,
                             !.rawTotal = gb.n,
                             !.outMark = IF gb.mark < gb.n THEN gb.mark ELSE -1]
                     ELSE [Raised("error") EXCEPT !.reads = 1,
                                                  !.lastRaw = gb.n,
                                                  !.fault = TRUE]
    /\ UNCHANGED <<bridgeVars, exceptGb>>

\* read_entropy_folded: the loop's test, and one iteration of the loop that
\* applies (plain chunks for folds <= 0, folded chunks otherwise).  The chunk
\* read holds raw stream bytes rawTotal .. rawTotal + raw_len - 1.
read_entropy_folded ==
    /\ gb.pc = "read"
    /\ gb.backend = "bitbabbler_rng"
    /\ gb.entry = "read_entropy_folded" \/ gb.folds > 0
    /\ IF gb.remain <= 0
       THEN gb' = Returned(gb.out)
       ELSE
       LET max_out_per_read ==
               IF gb.folds <= 0 THEN Max(1, Min(gb.remain, ReadLimit))
               ELSE Max(1, Min(gb.remain, ShiftRight(ReadLimit, gb.folds)))
           raw_len == IF gb.folds <= 0 THEN max_out_per_read
                      ELSE ShiftLeft(max_out_per_read, gb.folds)
           folded == fold_bytes(raw_len, gb.folds)
           local == gb.mark - gb.rawTotal
           marked == gb.mark >= 0 /\ local >= 0 /\ local < raw_len
           after == [gb EXCEPT
                       !.reads = @ + 1, !.lastRaw = raw_len,
                       !.rawTotal = @ + raw_len,
                       !.outMark = IF marked
                                   THEN gb.out
                                        + fold_mark(local, raw_len, gb.folds)
                                   ELSE @,
                       !.out = @ + folded,
                       !.remain = @ - folded]
       IN
       IF ~read_entropy_accepts(raw_len) \/ folded < 0
       THEN gb' = Raised("error")
       ELSE \E ok \in BOOLEAN :
               gb' = IF ~ok
                     THEN [Raised("error") EXCEPT !.reads = @ + 1,
                                                  !.lastRaw = raw_len,
                                                  !.fault = TRUE]
                     ELSE IF after.remain > 0 THEN after
                     ELSE [after EXCEPT !.pc = "done", !.result = "ok",
                                        !.len = after.out]
    /\ UNCHANGED <<bridgeVars, exceptGb>>

\* truerng: ser = serial.Serial(port=port, timeout=10), before the try block:
\* it opens the port or raises.
serial_open ==
    /\ gb.pc = "serial"
    /\ \E ok \in BOOLEAN :
          gb' = IF ok THEN [gb EXCEPT !.pc = "read", !.port = "open"]
                ELSE [Raised("error") EXCEPT !.fault = TRUE]
    /\ UNCHANGED <<bridgeVars, exceptGb>>

\* Mutant of AfterSerialRead: the short-read error leaves without the finally.
AfterSerialRead_leaks(short) == IF short THEN "done" ELSE "finally"

\* truerng: where control goes after the try block's body: the finally clause.
AfterSerialRead(short) == "finally"

\* The read of the other backends.  truerng: setDTR/flushInput/ser.read(n) may
\* raise, the read may time out short (RuntimeError), else data is returned;
\* all three leave through the finally clause.  intel_seed: rdseed_bytes may
\* write fewer bytes (RDSEEDError).  pseudo_rng: secrets.token_bytes(n).
source_read ==
    /\ gb.pc = "read"
    /\ gb.backend # "bitbabbler_rng"
    /\ \E delivered \in {-1, gb.n - 1, gb.n} :
          /\ gb.backend = "pseudo_rng" => delivered = gb.n
          /\ gb.backend = "intel_seed" => delivered >= 0
          /\ LET after == IF delivered = gb.n
                          THEN [Returned(delivered) EXCEPT !.reads = 1]
                          ELSE [Raised("error") EXCEPT !.reads = 1,
                                   !.fault = TRUE, !.len = Max(delivered, 0)]
             IN gb' = IF gb.backend = "truerng"
                      THEN [after EXCEPT
                              !.pc = AfterSerialRead(delivered # gb.n)]
                      ELSE after
    /\ UNCHANGED <<bridgeVars, exceptGb>>

\* truerng: finally: ser.close(), its own exception swallowed; the pending
\* return or exception then leaves get_bytes.
serial_close ==
    /\ gb.pc = "finally"
    /\ gb' = [gb EXCEPT !.pc = "done", !.port = "closed"]
    /\ UNCHANGED <<bridgeVars, exceptGb>>

NextBytes ==
    \/ get_bytes
    \/ read_entropy
    \/ read_entropy_folded
    \/ serial_open
    \/ source_read
    \/ serial_close

SpecBytes == InitBytes /\ [][NextBytes]_vars

\* The calling thread keeps running.
SpecBytesFair == SpecBytes /\ WF_vars(NextBytes)

\* C2: for every available backend and every n > 0, get_bytes(n) returns
\* exactly n bytes; for BitBabbler at every fold level 0..4 and every n, also
\* when the raw length exceeds the 65536-byte single-read limit.
C2_ExactlyNBytes ==
    (/\ gb.pc = "done"
     /\ gb.n > 0
     /\ gb.folds \in 0..MaxFolds
     /\ gb.present
     /\ ~gb.fault)
        => gb.result = "ok" /\ gb.len = gb.n

\* C12: get_bytes(n) never returns a result whose length differs from n; when
\* the source delivered fewer bytes or a transfer failed the call ends with a
\* device-error; a serial port opened by truerng's call is closed when the
\* call has ended, on every exit path.
C12_NoShortResult ==
    (gb.pc \in {"done", "finally"} /\ gb.entry = "get_bytes") =>
        /\ gb.result = "ok" => gb.len = gb.n
        /\ gb.fault => gb.result = "error"
        /\ gb.pc = "done" => gb.port # "open"

\* C12 witness: truerng's read timed out short; the call ended with a
\* device-error and the port it had opened is closed.
C12_Witness ==
    /\ gb.pc = "done"
    /\ gb.entry = "get_bytes"
    /\ gb.backend = "truerng"
    /\ gb.fault
    /\ gb.reads = 1
    /\ gb.len = gb.n - 1
    /\ gb.result = "error"
    /\ gb.port = "closed"

\* The call runs read_entropy_folded with an out_len and fold level that the
\* driver's contract allows.
InFolded ==
    /\ gb.pc \in {"read", "done"}
    /\ gb.backend = "bitbabbler_rng"
    /\ gb.entry = "read_entropy_folded" \/ gb.folds > 0
    /\ gb.present
    /\ gb.n >= 1
    /\ gb.folds \in 0..MaxFolds

\* C19 (state): every raw read issued has a length in 1..65536 that is a
\* multiple of 2^folds, and the bytes returned are exactly out_len.
C19_Chunks ==
    InFolded =>
        /\ gb.reads > 0 =>
              /\ gb.lastRaw >= 1
              /\ gb.lastRaw <= 65536
              /\ gb.lastRaw % (2 ^ gb.folds) = 0
        /\ gb.out + gb.remain = gb.n \/ gb.result = "error"
        /\ gb.pc = "done" => gb.fault \/ (gb.result = "ok" /\ gb.len = gb.n)

C20_ChunkedEqualsEndToEnd ==
    (InFolded /\ gb.pc = "done" /\ gb.result = "ok" /\ gb.reads >= 2) =>
        gb.outMark = fold_mark(IF gb.mark < gb.rawTotal THEN gb.mark ELSE -1,
                               gb.rawTotal, gb.folds)

(***************************************************************************)
(* SpecOpen: one BitBabbler.open(): discovery, then the MPSSE bring-up     *)
(* (init_mpsse, _check_sync) and the device-specific init.                 *)
(***************************************************************************)
InitAttempts == 2   \* init_mpsse: for _ in range(2)
SyncPolls == 10     \* _check_sync: for _ in range(10)

\* Mutant of BringUpOps: MPSSE mode is entered before the latency timer and
\* flow control are set.
BringUpOps_mpsse_early ==
    <<"reset", "purge_read", "set_special_chars", "bitmode_reset",
      "bitmode_mpsse", "set_latency", "set_flow_control", "settle",
      "modem_status">>

\* init_mpsse: what one bring-up attempt issues before its sync checks.
BringUpOps ==
    <<"reset", "purge_read", "set_special_chars", "set_latency",
      "set_flow_control", "bitmode_reset", "bitmode_mpsse", "settle",
      "modem_status">>

\* init_mpsse: the operations wrapped in try/except Exception: pass.
Swallowed == {"purge_read", "modem_status"}

\* Operations that transfer nothing and cannot raise (time.sleep).
NoTransfer == {"settle"}

InitOpen ==
    /\ BridgeIdle
    /\ ExceptBuIdle
    /\ bu = [pc |-> "find", attempt |-> 0, check |-> "none", poll |-> 0,
             history |-> <<>>, aa |-> "none", mpsse |-> "none",
             result |-> "none", fault |-> FALSE,
             canon |-> "not_run", fallback |-> "not_run", base |-> "none",
             step |-> 0, ops |-> <<>>, ignored |-> {}, config |-> FALSE]

OpenRaised(kind) ==
    [bu EXCEPT !.pc = "done", !.result = kind, !.fault = (kind = "usb_error")]

\* Mutant of NeedsFallback: the string scan runs whatever find returned.
NeedsFallback_always(found) == TRUE

\* open: if base is None: base = FTDIDevice.find_any_bitbabbler(...)
NeedsFallback(found) == found = "none"

\* base = FTDIDevice.find(BB_VENDOR_ID, BB_PRODUCT_ID, serial); find raises
\* when the device it matched cannot be set up.
open_find ==
    /\ bu.pc = "find"
    /\ \E o \in {"found", "none", "raise"} :
          bu' = IF o = "raise"
                THEN [OpenRaised("usb_error") EXCEPT !.canon = o]
                ELSE [bu EXCEPT !.canon = o,
                                !.base = IF o = "found" THEN "find" ELSE @,
                                !.pc = IF NeedsFallback(o) THEN "find_any"
                                       ELSE "attempt"]
    /\ UNCHANGED <<bridgeVars, exceptBu>>

\* base = FTDIDevice.find_any_bitbabbler(serial); None raises not-found.
open_find_any ==
    /\ bu.pc = "find_any"
    /\ \E found \in BOOLEAN :
          LET b == IF found THEN "find_any" ELSE bu.base
              r == [bu EXCEPT !.fallback = IF found THEN "found" ELSE "none",
                              !.base = b]
          IN bu' = IF b = "none"
                   THEN [r EXCEPT !.pc = "done", !.result = "not_found"]
                   ELSE [r EXCEPT !.pc = "attempt"]
    /\ UNCHANGED <<bridgeVars, exceptBu>>

\* Mutant of MoreAttempts: a bring-up that gives up after one attempt.
MoreAttempts_single(k) == k < 1

\* init_mpsse's loop has another attempt to make after k attempts.
MoreAttempts(k) == k < InitAttempts

\* init_mpsse's loop head: the next attempt begins, or the loop is over:
\* return False, and open() raises the initialization error.
init_mpsse ==
    /\ bu.pc = "attempt"
    /\ bu' = IF MoreAttempts(bu.attempt)
             THEN [bu EXCEPT !.pc = "bringup", !.attempt = @ + 1, !.step = 1,
                             !.ops = <<>>, !.ignored = {},
                             !.check = "none", !.aa = "none"]
             ELSE [OpenRaised("init_error") EXCEPT !.mpsse = "false"]
    /\ UNCHANGED <<bridgeVars, exceptBu>>

\* The next operation of the attempt is issued.  A transfer that raises ends
\* open() with that error, except where init_mpsse catches it.
init_mpsse_op ==
    /\ bu.pc = "bringup"
    /\ LET op == BringUpOps[bu.step]
           last == bu.step = Len(BringUpOps)
       IN
       \E ok \in BOOLEAN :
          /\ op \in NoTransfer => ok
          /\ bu' = IF ~ok /\ op \notin Swallowed
                   THEN [OpenRaised("usb_error") EXCEPT !.ops = Append(@, op)]
                   ELSE [bu EXCEPT
                           !.ops = Append(@, op),
                           !.ignored = IF ok THEN @ ELSE @ \cup {op},
                           !.step = IF last THEN 0 ELSE @ + 1,
                           !.pc = IF last THEN "sync_write" ELSE @,
                           !.check = IF last THEN "AA" ELSE @]
    /\ UNCHANGED <<bridgeVars, exceptBu>>

\* _check_sync: self.write(bytes([cmd, MPSSE_SEND_IMMEDIATE]))
check_sync_write ==
    /\ bu.pc = "sync_write"
    /\ \E ok \in BOOLEAN :
          LET op == IF bu.check = "AA" THEN "sync_AA" ELSE "sync_AB" IN
          bu' = IF ok THEN [bu EXCEPT !.pc = "sync_poll", !.poll = 0,
                                      !.ops = Append(@, op)]
                ELSE [OpenRaised("usb_error") EXCEPT !.ops = Append(@, op)]
    /\ UNCHANGED <<bridgeVars, exceptBu>>

\* _check_sync: one poll for 0xFA, cmd; the read may raise (ignored), return
\* data without the echo, or return the echo.  After the last poll the check
\* fails and so does the attempt; 0xAB is checked only after 0xAA succeeded;
\* when both succeeded init_mpsse returns True.
check_sync_poll ==
    /\ bu.pc = "sync_poll"
    /\ IF bu.poll < SyncPolls
       THEN \E o \in {"echo", "silent", "raise"} :
               bu' = IF o # "echo" THEN [bu EXCEPT !.poll = @ + 1]
                     ELSE IF bu.check = "AA"
                     THEN [bu EXCEPT !.pc = "sync_write", !.check = "AB",
                                     !.aa = "ok"]
                     ELSE [bu EXCEPT !.pc = "init", !.mpsse = "true",
                              !.history = Append(@, [aa |-> "ok", ab |-> "ok"])]
       ELSE bu' = [bu EXCEPT
                     !.pc = "attempt",
                     !.history = Append(@,
                         IF bu.check = "AA"
                         THEN [aa |-> "fail", ab |-> "skipped"]
                         ELSE [aa |-> "ok", ab |-> "fail"])]
    /\ UNCHANGED <<bridgeVars, exceptBu>>

\* BitBabbler.init after init_mpsse returned True: write the pin and clock
\* configuration, purge; open() returns the device.
init ==
    /\ bu.pc = "init"
    /\ \E ok \in BOOLEAN :
          bu' = IF ok THEN [bu EXCEPT !.pc = "done", !.result = "ok",
                                      !.config = TRUE]
                ELSE OpenRaised("usb_error")
    /\ UNCHANGED <<bridgeVars, exceptBu>>

NextOpen ==
    \/ open_find
    \/ open_find_any
    \/ init_mpsse
    \/ init_mpsse_op
    \/ check_sync_write
    \/ check_sync_poll
    \/ init

SpecOpen == InitOpen /\ [][NextOpen]_vars

\* An attempt in which both sync checks (0xAA, then 0xAB) were echoed.
AttemptSynced(i) == bu.history[i].aa = "ok" /\ bu.history[i].ab = "ok"
SomeAttemptSynced == \E i \in 1..Len(bu.history) : AttemptSynced(i)

\* C10: bring-up makes at most 2 attempts; init_mpsse reports success iff in
\* some attempt both sync checks succeeded; when no transfer raises, open()
\* returns a device iff some attempt synchronised (so a failure in the first
\* attempt followed by success in the second opens the device) and fails with
\* the initialization error iff both attempts failed.
C10_BringUpRetry ==
    /\ bu.attempt <= 2
    /\ Len(bu.history) <= 2
    /\ bu.mpsse = "true" <=> SomeAttemptSynced
    /\ bu.mpsse = "false" =>
          Len(bu.history) = 2 /\ ~AttemptSynced(1) /\ ~AttemptSynced(2)
    /\ (bu.pc = "done" /\ ~bu.fault /\ bu.result # "not_found") =>
          /\ bu.result = "ok" <=> SomeAttemptSynced
          /\ bu.result = "init_error" <=>
                (Len(bu.history) = 2 /\ ~AttemptSynced(1) /\ ~AttemptSynced(2))
          /\ bu.result \in {"ok", "init_error"}

\* C10 witness: the first attempt failed its sync handshake, the second
\* succeeded, and open() returned the device.
C10_Witness ==
    /\ bu.pc = "done"
    /\ bu.result = "ok"
    /\ Len(bu.history) = 2
    /\ ~AttemptSynced(1)
    /\ AttemptSynced(2)

\* C24: open() runs the canonical VID:PID discovery first and the string
\* scan only when that found no device; it fails with the not-found error
\* iff both found nothing, and otherwise goes on to bring-up on the first
\* handle found.
C24_DiscoveryOrder ==
    bu.pc # "off" =>
        /\ bu.fallback # "not_run" => bu.canon = "none"
        /\ bu.pc # "find" => bu.canon # "not_run"
        /\ bu.pc = "done" =>
              (bu.result = "not_found"
                 <=> (bu.canon = "none" /\ bu.fallback = "none"))
        /\ (bu.canon = "found" \/ bu.fallback = "found") =>
              /\ bu.base = IF bu.canon = "found" THEN "find" ELSE "find_any"
              /\ bu.pc = "attempt" \/ bu.attempt >= 1
        /\ bu.attempt >= 1 => bu.base # "none"

\* The canonical discovery found nothing, the string scan found the device
\* and open() brought it up.
C24_Witness ==
    /\ bu.pc = "done"
    /\ bu.canon = "none"
    /\ bu.fallback = "found"
    /\ bu.base = "find_any"
    /\ bu.result = "ok"

\* C28: each bring-up attempt issues SIO reset, purge read, disable special
\* characters, latency timer, RTS/CTS flow control, bitmode reset, bitmode
\* MPSSE, settle delay, modem-status probe, sync 0xAA, sync 0xAB in this
\* order, the second sync check only after the first succeeded; a failing
\* purge read or modem-status probe does not end the attempt; the device
\* configuration is written only after both sync checks succeeded, never
\* after a failed bring-up.
C28_BringUpOrder ==
    bu.pc # "off" =>
        LET order == <<"reset", "purge_read", "set_special_chars",
                       "set_latency", "set_flow_control", "bitmode_reset",
                       "bitmode_mpsse", "settle", "modem_status",
                       "sync_AA", "sync_AB">>
            n == Len(bu.ops)
        IN
        /\ n <= Len(order)
        /\ \A i \in 1..n : bu.ops[i] = order[i]
        /\ n = Len(order) => bu.aa = "ok"
        /\ (bu.pc = "done" /\ bu.result = "usb_error" /\ n > 0) =>
              bu.ops[n] \notin {"purge_read", "modem_status"}
        /\ bu.config =>
              /\ n = Len(order)
              /\ bu.mpsse = "true"
              /\ AttemptSynced(Len(bu.history))
        /\ bu.mpsse = "false" => ~bu.config

\* The first attempt failed, in the second the purge read and the modem-status
\* probe raised, both sync checks were echoed, and the configuration was
\* written.
C28_Witness ==
    /\ bu.pc = "done"
    /\ bu.result = "ok"
    /\ bu.attempt = 2
    /\ bu.ignored = {"purge_read", "modem_status"}
    /\ Len(bu.ops) = 11
    /\ bu.config

(***************************************************************************)
(* SpecRead: one BitBabbler.read_entropy(nbytes): the MPSSE read command   *)
(* and FTDIDevice.read_data's loop over raw bulk reads.  Buffers are       *)
(* modelled by their lengths.  The driver thread keeps running, so the     *)
(* specification is weakly fair.                                           *)
(***************************************************************************)
MaxReadN == 4     \* bound: the largest accepted request tried
MaxExcess == 2    \* bound: payload bytes beyond the request, and in _rbuf

ReadNValues == (0..MaxReadN) \cup {ReadLimit + 1}

InitRead ==
    /\ BridgeIdle
    /\ ExceptRdIdle
    /\ \E n \in ReadNValues, b \in 0..MaxExcess :
          rd = [pc |-> "call", nbytes |-> n, out |-> 0, rbuf |-> b,
                empties |-> FALSE, result |-> "none", len |-> 0]

RdDone(kind) == [rd EXCEPT !.pc = "done", !.result = kind]

\* read_entropy: the range check, then self.write(cmd).
read_entropy_cmd ==
    /\ rd.pc = "call"
    /\ IF ~read_entropy_accepts(rd.nbytes)
       THEN rd' = RdDone("invalid")
       ELSE \E ok \in BOOLEAN :
               rd' = IF ok THEN [rd EXCEPT !.pc = "drain"] ELSE RdDone("error")
    /\ UNCHANGED <<bridgeVars, exceptRd>>

\* read_data: drain any buffered content first.
read_data_drain ==
    /\ rd.pc = "drain"
    /\ LET take == Min(rd.nbytes, rd.rbuf) IN
       rd' = [rd EXCEPT !.pc = "loop", !.out = take, !.rbuf = @ - take]
    /\ UNCHANGED <<bridgeVars, exceptRd>>

\* read_data: one pass of `while len(out) < nbytes`: a raw bulk read that
\* raises, yields status bytes only (empty payload), or yields payload; payload
\* beyond the request goes to _rbuf.
read_data_raw ==
    /\ rd.pc = "loop"
    /\ rd.out < rd.nbytes
    /\ LET needed == rd.nbytes - rd.out IN
       \/ rd' = RdDone("error")
       \/ rd' = [rd EXCEPT !.pc = "backoff", !.empties = TRUE]
       \/ \E payload \in 1..(needed + MaxExcess - rd.rbuf) :
             rd' = [rd EXCEPT !.out = @ + Min(payload, needed),
                              !.rbuf = @ + Max(0, payload - needed)]
    /\ UNCHANGED <<bridgeVars, exceptRd>>

\* read_data: `if not payload: time.sleep(0.001); continue`.
read_data_backoff ==
    /\ rd.pc = "backoff"
    /\ rd' = [rd EXCEPT !.pc = "loop"]
    /\ UNCHANGED <<bridgeVars, exceptRd>>

\* read_data: the loop's condition is false, return bytes(out).
read_data_return ==
    /\ rd.pc = "loop"
    /\ rd.out >= rd.nbytes
    /\ rd' = [RdDone("ok") EXCEPT !.len = rd.out]
    /\ UNCHANGED <<bridgeVars, exceptRd>>

NextRead ==
    \/ read_entropy_cmd
    \/ read_data_drain
    \/ read_data_raw
    \/ read_data_backoff
    \/ read_data_return

SpecRead == InitRead /\ [][NextRead]_vars /\ WF_vars(NextRead)

\* C11: every read ends, with the bytes or with an error, also when raw bulk
\* reads keep yielding zero usable payload bytes.
C11_ReadEnds == <>(rd.pc = "done")

(***************************************************************************)
(* SpecApi: one synchronous call of get_bytes, get_bits, get_exact_bits or *)
(* random_int of one backend.  Integers that may exceed 32 bits (the range *)
(* max - min, masked draws) are kept as sign, exponent and remainder:      *)
(* sgn * (2^exp + plus) with 0 <= plus < 2^exp, or zero.                   *)
(***************************************************************************)
MaxSmallExp == 3  \* bound: ranges 1..2^MaxSmallExp + MaxPlus are tried in full
MaxPlus == 1      \* bound: the largest remainder above a power of two
MaxMin == 1       \* bound: min_val ranges over -MaxMin..MaxMin
WordBits == 32    \* random_int without max_val: 4 bytes

MaxCloses == 2    \* bound: successive close() calls

DataFunctions == {"get_bytes", "get_bits", "get_exact_bits", "random_int"}
Functions == DataFunctions \cup {"is_device_available", "close"}

\* What is_device_available() can meet.  bitbabbler_rng: the driver module
\* failed to import; open() finds no device; open() raises (USB enumeration,
\* bring-up).  truerng: list_ports.comports() raises; no port matches.
\* intel_seed: library file missing; CDLL load fails; the test read fails
\* (CPU without RDSEED); another exception (symbol missing).
Conds(b) ==
    {"ok"} \cup
    CASE b = "bitbabbler_rng" -> {"no_module", "not_found", "open_raises"}
      [] b = "truerng" -> {"enum_raises", "not_found"}
      [] b = "intel_seed" -> {"lib_missing", "lib_unloadable",
                              "cpu_unsupported", "other_exception"}
      [] OTHER -> {}

Zero == [sgn |-> 0, exp |-> 0, plus |-> 0]
Pos(k, d) == [sgn |-> 1, exp |-> k, plus |-> d]
Neg(k, d) == [sgn |-> -1, exp |-> k, plus |-> d]

\* v < w for v >= 0 and w > 0.
Less(v, w) ==
    \/ v.sgn = 0
    \/ v.exp < w.exp
    \/ v.exp = w.exp /\ v.plus < w.plus

\* Positive integers 2^k + d with k in K and d <= MaxPlus; d <= k keeps
\* d < 2^k.
PosNums(K) ==
    {Pos(q[1], q[2]) : q \in {r \in K \X (0..MaxPlus) : r[2] <= r[1]}}

\* The non-negative integers below 2^bits (with remainder at most MaxPlus).
Below(bits) == {Zero} \cup PosNums(0..(bits - 1))

\* The ranges tried: small ones, and ones around 2^48 and 2^49 wide.
RangeExps == (0..MaxSmallExp) \cup {48, 49}
Diffs == {Neg(0, 0), Zero} \cup PosNums(RangeExps)

\* math.log2(x) for x = 2^k + d, d > 0, is the double nearest to
\* k + log2(1 + d / 2^k); for 32 <= k < 64 doubles are 2^-47 apart, so the
\* result is exactly k when d / (2^k * ln 2) < 2^-48 (ln 2 taken as 0.693).
Log2RoundsDown(k, d) == k >= 48 /\ k < 64 /\ 1000 * d < 693 * 2 ^ (k - 48)

\* math.ceil(math.log2(range_size)) for range_size > 0.
CeilLog2(x) ==
    IF x.plus = 0 \/ Log2RoundsDown(x.exp, x.plus) THEN x.exp ELSE x.exp + 1

\* bits_needed = max(1, math.ceil(math.log2(range_size)))
bits_needed(range_size) == Max(1, CeilLog2(range_size))

ApiNValues == {-8, -1, 0, 1, 7, 8, 9, 16, 100, 128, 8 * (ReadLimit + 1)}

\* The folds argument: below, inside and above the range 0..MaxFolds.
FoldArgs == {-1, 0, 2, MaxFolds + 1}

InitApi ==
    /\ BridgeIdle
    /\ ExceptApiIdle
    /\ \E b \in Backends, f \in Functions, n \in ApiNValues,
          fl \in FoldArgs, mn \in -MaxMin..MaxMin, hm \in BOOLEAN,
          df \in Diffs, p \in BOOLEAN, ca \in BOOLEAN,
          cf \in BOOLEAN, c \in UNION {Conds(x) : x \in Backends} :
          /\ c \in Conds(b)
          /\ b # "bitbabbler_rng" => fl = 0
          /\ f = "random_int" => n = 1
          /\ f # "random_int" => mn = 0 /\ hm /\ df = Pos(0, 0)
          /\ ~hm => df = Pos(0, 0)
          /\ f \notin DataFunctions => n = 1 /\ fl = 0
          /\ IF f = "is_device_available" THEN p = (c = "ok")
             ELSE c = "ok"
          /\ f = "close" => p
          /\ (b \notin Caching \/ f = "is_device_available") => ~ca
          /\ (f \in DataFunctions /\ ca) => b = "bitbabbler_rng" /\ p
          /\ (f # "close" \/ b # "bitbabbler_rng" \/ ~ca) => ~cf
          /\ api = [pc |-> "call", backend |-> b, fn |-> f, n |-> n,
                    folds |-> fl, min |-> mn, hasMax |-> hm, diff |-> df,
                    present |-> p, touched |-> FALSE, need |-> 0,
                    bits |-> 0, drawn |-> 0, rejected |-> FALSE,
                    val |-> Zero, result |-> "none", len |-> 0,
                    cond |-> c, cached |-> ca, wasCached |-> ca,
                    closeFails |-> cf, closes |-> 0, fault |-> FALSE]

ApiDone(kind) == [api EXCEPT !.pc = "done", !.result = kind]

\* intel_seed's module functions are get_rdseed().<method>(...): the global
\* instance is looked up, and built if missing, before the method runs.
get_rdseed ==
    /\ api.pc = "call"
    /\ api.backend = "intel_seed"
    /\ api.fn \in DataFunctions
    /\ api' = IF api.present
              THEN [api EXCEPT !.pc = "method", !.touched = TRUE]
              ELSE [ApiDone("error") EXCEPT !.touched = TRUE]
    /\ UNCHANGED <<bridgeVars, exceptApi>>

\* The body of the called function is about to run.
AtBody(f) ==
    /\ api.fn = f
    /\ f \in DataFunctions
    /\ api.pc = IF api.backend = "intel_seed" THEN "method" ELSE "call"

\* get_bytes called directly: its body is the inner call below.
get_bytes_entry ==
    /\ AtBody("get_bytes")
    /\ api' = [api EXCEPT !.pc = "bytes", !.need = api.n]
    /\ UNCHANGED <<bridgeVars, exceptApi>>

\* get_bits(n): n <= 0 is ValueError, else get_bytes((n + 7) // 8).
get_bits ==
    /\ AtBody("get_bits")
    /\ api' = IF api.n <= 0 THEN ApiDone("invalid")
              ELSE [api EXCEPT !.pc = "bytes", !.need = (api.n + 7) \div 8]
    /\ UNCHANGED <<bridgeVars, exceptApi>>

\* get_exact_bits: n % 8 != 0 is ValueError.
ByteAligned(n) == n % 8 = 0

\* get_exact_bits(n): n <= 0 or n % 8 != 0 is ValueError, else
\* get_bytes(n // 8).
get_exact_bits ==
    /\ AtBody("get_exact_bits")
    /\ api' = IF api.n <= 0 \/ ~ByteAligned(api.n) THEN ApiDone("invalid")
              ELSE [api EXCEPT !.pc = "bytes", !.need = api.n \div 8]
    /\ UNCHANGED <<bridgeVars, exceptApi>>

\* What get_bytes(n, folds) of a backend can end with; where both "ok" and
\* "error" are possible the error is a failed transfer or a short read.
\* intel_seed's instance exists when its method runs (get_rdseed).
GetBytesResults(b, n, folds, present) ==
    CASE n <= 0 -> {"invalid"}
      [] b = "bitbabbler_rng" /\ (folds < 0 \/ folds > MaxFolds) -> {"invalid"}
      [] b = "pseudo_rng" -> {"ok"}
      [] b # "intel_seed" /\ ~present -> {"error"}
      [] b = "bitbabbler_rng" /\ folds = 0 /\ ~read_entropy_accepts(n) ->
            {"error"}
      [] OTHER -> {"ok", "error"}

\* get_bytes reached its device lookup (_get_device, _find_port).
LooksUpDevice(b, n, folds) ==
    /\ b \in {"bitbabbler_rng", "truerng"}
    /\ "invalid" \notin GetBytesResults(b, n, folds, TRUE)

ToInt(v) == v.sgn * (2 ^ v.exp + v.plus)

\* random_int up to its first draw.  Without max_val: bitbabbler_rng and
\* truerng read 4 bytes; intel_seed and pseudo_rng first reject min_val < 0;
\* pseudo_rng then returns secrets.randbelow(min_val) for min_val > 0 and
\* secrets.randbits(32) for min_val = 0.  With max_val: min_val >= max_val is
\* ValueError; pseudo_rng returns min_val + secrets.randbelow(range_size);
\* the others compute bits_needed and n_bytes for the rejection loop.
random_int ==
    /\ AtBody("random_int")
    /\ LET strict == api.backend \in {"intel_seed", "pseudo_rng"} IN
       IF ~api.hasMax
       THEN IF strict /\ api.min < 0
            THEN api' = ApiDone("invalid")
            ELSE IF api.backend = "pseudo_rng"
            THEN IF api.min > 0
                 THEN \E v \in {w \in Below(MaxMin + 1) : ToInt(w) < api.min} :
                         api' = [ApiDone("ok") EXCEPT !.val = v]
                 ELSE \E v \in Below(WordBits) :
                         api' = [ApiDone("ok") EXCEPT !.val = v, !.drawn = 4,
                                                      !.bits = WordBits]
            ELSE api' = [api EXCEPT !.pc = "bytes", !.need = 4,
                                    !.bits = WordBits]
       ELSE IF api.diff.sgn <= 0
            THEN api' = ApiDone("invalid")
            ELSE IF api.backend = "pseudo_rng"
            THEN \E v \in {w \in Below(api.diff.exp + 1) : Less(w, api.diff)} :
                    api' = [ApiDone("ok") EXCEPT !.val = v]
            ELSE api' = [api EXCEPT
                           !.pc = "bytes",
                           !.bits = bits_needed(api.diff),
                           !.need = (bits_needed(api.diff) + 7) \div 8]
    /\ UNCHANGED <<bridgeVars, exceptApi>>

\* random_int: if val < range_size: return min_val + val
Accepted(val, range_size) == Less(val, range_size)

\* Mutant of CacheAfter: every failure of get_bytes resets the cache.
CacheAfter_reset_always(b, cached, r) == r = "ok" /\ b \in Caching

\* _cached_device after get_bytes ended with r.  ValueError is raised before
\* _get_device; a successful open is cached; a failed lookup leaves None;
\* BitBabbler's `except Exception` around the read resets the cache.
CacheAfter(b, cached, r) ==
    IF b # "bitbabbler_rng" \/ r = "invalid" THEN cached
    ELSE r = "ok"

\* One get_bytes(need) made by the called function, and what the function
\* does with it: get_bytes, get_bits and get_exact_bits return the data;
\* random_int converts it (int.from_bytes), masks it to bits_needed bits and
\* returns or draws again.
get_bytes_call ==
    /\ api.pc = "bytes"
    /\ LET results == GetBytesResults(api.backend, api.need, api.folds,
                                      api.present)
           t == api.touched \/ LooksUpDevice(api.backend, api.need, api.folds)
       IN
       \E r \in results :
          LET after == [api EXCEPT
                          !.touched = t,
                          !.cached = CacheAfter(api.backend, api.cached, r)]
              done == [after EXCEPT !.pc = "done", !.result = r]
          IN
          IF r # "ok"
          THEN api' = [done EXCEPT !.fault = ("ok" \in results)]
          ELSE IF api.fn # "random_int"
          THEN api' = [done EXCEPT !.len = api.need, !.drawn = api.need]
          ELSE \E v \in Below(api.bits) :
                  api' = IF ~api.hasMax \/ Accepted(v, api.diff)
                         THEN [done EXCEPT !.val = v, !.drawn = api.need]
                         ELSE [after EXCEPT !.rejected = TRUE,
                                            !.drawn = api.need]
    /\ UNCHANGED <<bridgeVars, exceptApi>>

\* is_device_available() as a whole.  bitbabbler_rng returns False without
\* the driver module and catches every Exception of open(); truerng calls
\* _find_port() unguarded; intel_seed's is_rdseed_available() returns False
\* only for the "not available on this CPU" RDSEEDError and for exceptions
\* that are not RDSEEDError, and re-raises other RDSEEDErrors; pseudo_rng
\* returns True.
AvailabilityResult(b, c) ==
    CASE c = "ok" -> "true"
      [] b = "truerng" /\ c = "enum_raises" -> "raised"
      [] b = "intel_seed" /\ c \in {"lib_missing", "lib_unloadable"} ->
            "raised"
      [] OTHER -> "false"

is_device_available_call ==
    /\ api.fn = "is_device_available"
    /\ api.pc = "call"
    /\ api' = [ApiDone(AvailabilityResult(api.backend, api.cond)) EXCEPT
                 !.touched = (api.backend # "pseudo_rng")]
    /\ UNCHANGED <<bridgeVars, exceptApi>>

\* Mutant of CloseOutcome: the device's own close failure escapes close().
CloseOutcome_escapes(fails) == IF fails THEN "raised" ELSE "ok"

\* close(): FTDIDevice.close swallows the exception of dispose_resources, and
\* bitbabbler_rng's close() wraps the call in try/except Exception: pass.
CloseOutcome(fails) == "ok"

\* One close(): bitbabbler_rng closes and forgets a cached device, intel_seed
\* forgets its instance, truerng and pseudo_rng do nothing.
close_call ==
    /\ api.fn = "close"
    /\ api.pc = "call"
    /\ LET outcome == IF api.cached /\ api.backend = "bitbabbler_rng"
                      THEN CloseOutcome(api.closeFails)
                      ELSE "ok"
       IN
       api' = [api EXCEPT
                 !.cached = IF outcome = "ok" THEN FALSE ELSE @,
                 !.result = outcome,
                 !.closes = @ + 1,
                 !.pc = IF outcome = "ok" /\ api.closes + 1 < MaxCloses
                        THEN "call" ELSE "done"]
    /\ UNCHANGED <<bridgeVars, exceptApi>>

NextApi ==
    \/ get_rdseed
    \/ get_bytes_entry
    \/ get_bits
    \/ get_exact_bits
    \/ random_int
    \/ get_bytes_call
    \/ is_device_available_call
    \/ close_call

SpecApi == InitApi /\ [][NextApi]_vars

\* The call's argument violates the caller contract.
InvalidArgument ==
    \/ api.fn \in {"get_bytes", "get_bits"} /\ api.n <= 0
    \/ api.fn = "get_exact_bits" /\ (api.n <= 0 \/ api.n % 8 # 0)
    \/ api.fn = "random_int" /\ api.hasMax /\ api.diff.sgn <= 0

\* C13: for all four backends a call with an invalid argument fails with
\* invalid-argument whether or not the device or library is present, and no
\* device discovery, library loading or open happens before the validation.
C13_InvalidArgumentFirst ==
    (api.pc # "off" /\ InvalidArgument) =>
        /\ ~api.touched
        /\ api.pc = "done" => api.result = "invalid"

\* C16: for all backends get_exact_bits(n) fails with invalid-argument iff
\* n <= 0 or n % 8 # 0; for every other n, with the backend available (and no
\* failed transfer), it returns exactly n / 8 bytes.
C16_ExactBits ==
    (api.pc = "done" /\ api.fn = "get_exact_bits"
       /\ api.folds \in 0..MaxFolds) =>
        /\ api.result = "invalid" <=> (api.n <= 0 \/ api.n % 8 # 0)
        /\ (api.n > 0 /\ api.n % 8 = 0 /\ api.present /\ ~api.fault) =>
              api.result = "ok" /\ api.len * 8 = api.n

\* The masked draws of the rejection loop reach every offset below range_size.
EveryOffsetDrawable ==
    \A v \in Below(api.diff.exp + 1) :
        Less(v, api.diff) => v \in Below(api.bits)

\* C17: random_int(min, max) with min >= max fails with invalid-argument
\* without drawing any bytes; with min < max a returned value is min + v with
\* v < max - min, hence in [min, max); and 2^bits_needed >= max - min, so the
\* loop can return every value of [min, max).
C17_RandomIntRange ==
    (api.pc # "off" /\ api.fn = "random_int" /\ api.hasMax) =>
        /\ (api.pc = "done" /\ api.diff.sgn <= 0) =>
              api.result = "invalid" /\ api.drawn = 0
        /\ (api.pc = "done" /\ api.result = "ok") => Less(api.val, api.diff)
        /\ api.pc = "bytes" => EveryOffsetDrawable

\* C18: for every backend random_int with max omitted returns an unsigned
\* value built from exactly 4 freshly drawn bytes, a value in [0, 2^32),
\* whatever min is (the backend being available and no transfer failing).
C18_FullWidthWithoutMax ==
    (/\ api.pc = "done"
     /\ api.fn = "random_int"
     /\ ~api.hasMax
     /\ api.folds \in 0..MaxFolds
     /\ api.present
     /\ ~api.fault)
        => /\ api.result = "ok"
           /\ api.drawn = 4
           /\ api.val \in Below(WordBits)

\* C14: for every backend is_device_available() never raises; every internal
\* failure is reported as False.
C14_AvailabilityNeverRaises ==
    (api.pc = "done" /\ api.fn = "is_device_available") =>
        /\ api.result \in {"true", "false"}
        /\ api.cond # "ok" => api.result = "false"

\* C15 (step): a close() after the first changes nothing.
C15_SecondCloseStep ==
    (api.pc # "off" /\ api.fn = "close" /\ api.closes >= 1) =>
        /\ api'.cached = api.cached
        /\ api'.result = api.result

\* C15 (state): close() has returned normally and nothing is cached.
C15_Closed ==
    (api.pc # "off" /\ api.fn = "close" /\ api.closes >= 1) =>
        /\ api.result = "ok"
        /\ ~api.cached

\* C15: for every backend close() never raises and is idempotent: with nothing
\* cached, with a cached device, with a device whose own close fails, or
\* repeatedly, it returns normally; afterwards no device is cached and a
\* second close() changes nothing.
C15_CloseIdempotent == [][C15_SecondCloseStep]_vars /\ []C15_Closed

\* C15 witness: bitbabbler_rng held a cached device whose own close failed;
\* close() was called twice and returned normally both times.
C15_Witness ==
    /\ api.pc = "done"
    /\ api.fn = "close"
    /\ api.backend = "bitbabbler_rng"
    /\ api.wasCached
    /\ api.closeFails
    /\ api.closes = MaxCloses
    /\ api.result = "ok"
    /\ ~api.cached

\* C26: for every backend and every n > 0, get_bits(n) returns exactly
\* ceil(n / 8) bytes: at least n bits and fewer than n + 8 (with the backend
\* available and no failed transfer).
C26_GetBitsLength ==
    (api.pc = "done" /\ api.fn = "get_bits" /\ api.n > 0
       /\ api.folds \in 0..MaxFolds /\ api.present /\ ~api.fault)
      => /\ api.result = "ok"
         /\ api.len = (api.n + 7) \div 8
         /\ 8 * api.len >= api.n
         /\ 8 * api.len < api.n + 8

\* C31: BitBabbler get_bytes, get_bits, get_exact_bits and random_int with
\* a fold level outside 0..4 or an invalid n fail with invalid-argument,
\* access no device and leave the cached device as it was.
C31_InvalidLeavesCache ==
    (/\ api.pc # "off"
     /\ api.backend = "bitbabbler_rng"
     /\ api.fn \in DataFunctions
     /\ InvalidArgument \/ api.folds \notin 0..MaxFolds)
        => /\ ~api.touched
           /\ api.cached = api.wasCached
           /\ api.pc = "done" => api.result = "invalid"

\* get_exact_bits(8, folds=5) with a device cached: rejected, cache kept.
C31_Witness ==
    /\ api.pc = "done"
    /\ api.backend = "bitbabbler_rng"
    /\ api.fn = "get_exact_bits"
    /\ api.n = 8
    /\ api.folds = MaxFolds + 1
    /\ api.wasCached
    /\ api.cached
    /\ api.result = "invalid"

(***************************************************************************)
(* SpecStream: successive FTDIDevice.read_data calls on one handle, byte   *)
(* by byte.  The device sends full packets of wMaxPacketSize bytes: two    *)
(* status bytes, then payload.  A status byte is written -1 and the j-th   *)
(* payload byte of the stream is written j (from 0).                       *)
(***************************************************************************)
MaxPacket == 5      \* bound: wMaxPacketSize ranges over 3..MaxPacket
MaxPackets == 2     \* bound: packets the device sends
MaxRequest == 3     \* bound: read_data(nbytes) with nbytes in 1..MaxRequest
MaxDataCalls == 3   \* bound: read_data calls on the handle

Status == -1

\* The byte at offset p (from 0) of the device's raw stream.
RawByte(p, plen) ==
    IF p % plen < 2 THEN Status
    ELSE ((p \div plen) * (plen - 2)) + ((p % plen) - 2)

Drop(seq, k) == SubSeq(seq, k + 1, Len(seq))
Take(seq, k) == SubSeq(seq, 1, k)

\* _consume_packets_strip_status from index i (from 0) of data on.
RECURSIVE StripFrom(_, _, _)
StripFrom(data, i, plen) ==
    IF i >= Len(data) THEN <<>>
    ELSE LET chunk == SubSeq(data, i + 1, Min(i + plen, Len(data))) IN
         IF Len(chunk) < 2 THEN <<>>
         ELSE Drop(chunk, 2) \o StripFrom(data, i + plen, plen)

consume_packets_strip_status(data, plen) == StripFrom(data, 0, plen)

\* Mutant of RequestSize: the raw read asks for two packets more.
RequestSize_generous(needed, plen) == Max(plen, needed) + 2 * plen

\* read_data: self._read_raw(max(self.wMaxPacketSize, nbytes - len(out)))
RequestSize(needed, plen) == Max(plen, needed)

\* _read_raw: the size rounded up to a multiple of wMaxPacketSize.
ReadSize(size, plen) ==
    IF size % plen # 0 THEN size + (plen - (size % plen)) ELSE size

\* Mutant of Surplus: payload beyond the request is discarded.
Surplus_dropped(payload, needed) == <<>>

\* read_data: if len(payload) > needed: self._rbuf.extend(payload[needed:])
Surplus(payload, needed) == Drop(payload, Min(needed, Len(payload)))

InitStream ==
    /\ BridgeIdle
    /\ ExceptStIdle
    /\ \E pl \in 3..MaxPacket :
          st = [pc |-> "idle", plen |-> pl, pos |-> 0, rbuf |-> <<>>,
                returned |-> <<>>, received |-> <<>>, nbytes |-> 0,
                out |-> <<>>, calls |-> 0, raws |-> 0, aligned |-> TRUE,
                lastLen |-> 0]

\* read_data(nbytes) up to its loop: drain any buffered content first.
read_data ==
    /\ st.pc = "idle"
    /\ st.calls < MaxDataCalls
    /\ \E n \in 1..MaxRequest :
          LET take == Min(n, Len(st.rbuf)) IN
          st' = [st EXCEPT !.pc = "loop", !.nbytes = n, !.calls = @ + 1,
                           !.raws = 0,
                           !.out = Take(st.rbuf, take),
                           !.rbuf = Drop(st.rbuf, take)]
    /\ UNCHANGED <<bridgeVars, exceptSt>>

\* One pass of read_data's loop: a raw bulk read that returns some of the
\* bytes the device has sent (at most the size asked for), the status bytes
\* stripped, the payload appended to out and its surplus to _rbuf.
read_raw ==
    /\ st.pc = "loop"
    /\ Len(st.out) < st.nbytes
    /\ LET needed == st.nbytes - Len(st.out)
           size == ReadSize(RequestSize(needed, st.plen), st.plen)
           avail == MaxPackets * st.plen - st.pos
       IN
       \E got \in 1..Min(size, avail) :
          LET raw == [i \in 1..got |-> RawByte(st.pos + i - 1, st.plen)]
              payload == consume_packets_strip_status(raw, st.plen)
          IN
          st' = [st EXCEPT
                   !.pos = @ + got,
                   !.raws = @ + 1,
                   !.aligned = @ /\ (got % st.plen = 0),
                   !.received = @ \o payload,
                   !.out = @ \o Take(payload, Min(needed, Len(payload))),
                   !.rbuf = @ \o Surplus(payload, needed)]
    /\ UNCHANGED <<bridgeVars, exceptSt>>

\* read_data: the loop's condition is false: return bytes(out).
read_data_exit ==
    /\ st.pc = "loop"
    /\ Len(st.out) >= st.nbytes
    /\ st' = [st EXCEPT !.pc = "idle", !.returned = @ \o st.out,
                        !.lastLen = Len(st.out), !.out = <<>>]
    /\ UNCHANGED <<bridgeVars, exceptSt>>

NextStream ==
    \/ read_data
    \/ read_raw
    \/ read_data_exit

SpecStream == InitStream /\ [][NextStream]_vars

\* Everything read_data has handed out or holds, in the order it is returned.
Delivered == st.returned \o st.out \o st.rbuf

\* seq is the payload of the stream from its first byte on, nothing else.
PayloadPrefix(seq) == \A i \in 1..Len(seq) : seq[i] = i - 1

\* C21: read_data returns exactly the payload bytes of the packets, byte for
\* byte and in order, however the raw stream is split across the raw bulk
\* reads: what the calls returned, followed by what is buffered, is the
\* payload of the stream from its start, without a gap and without a status
\* byte.
C21_PayloadExact == PayloadPrefix(Delivered)

\* A raw bulk read is taken in this step.
RawReadStep == st'.pos # st.pos

\* A read_data call returns in this step.
ReturnStep == st.pc = "loop" /\ st'.pc = "idle"

C29_Conserved == Delivered = st.received

C29_Step ==
    /\ ReturnStep => Len(st.out) = st.nbytes
    /\ ReturnStep => st'.returned = st.returned \o st.out
    /\ RawReadStep => st.rbuf = <<>>

\* C29: across read_data calls on one handle, the bytes returned so far
\* followed by the read-ahead buffer are the stripped payload received so
\* far (nothing lost, duplicated or reordered); each call returns exactly
\* nbytes bytes; buffered surplus is handed out before any new raw read.
C29_ReadAhead == [] C29_Conserved /\ [][C29_Step]_vars

\* A second call was served from the read-ahead buffer alone while payload
\* is still buffered.
C29_Witness ==
    /\ st.pc = "idle"
    /\ st.calls >= 2
    /\ st.raws = 0
    /\ st.lastLen = st.nbytes
    /\ st.rbuf # <<>>

\* C30: the read-ahead buffer holds fewer than wMaxPacketSize bytes, given
\* that a raw read returns at most the bytes asked for.
C30_BufferBounded == st.pc # "off" => Len(st.rbuf) < st.plen

\* A small read against a larger packet left surplus in the buffer.
C30_Witness ==
    /\ st.pc = "idle"
    /\ st.calls >= 1
    /\ st.lastLen < st.plen - 2
    /\ Len(st.rbuf) = st.plen - 3

(***************************************************************************)
(* SpecFold: one call fold_bytes(data, folds) on a buffer with contents.   *)
(* fo.data is the caller's buffer, fo.input what it held at the call, fo.b *)
(* the function's working bytearray.                                       *)
(***************************************************************************)
MaxFoldLen == 4     \* bound: every byte string up to this length is folded
MaxByte == 1        \* bound: byte values 0..MaxByte

\* Lengths beyond MaxFoldLen, folded with one nonzero byte or none.
LongLens == {4, 6, 8, 12, 16, 17, 32}

Marked(L, q) == [i \in 1..L |-> IF i = q THEN 1 ELSE 0]

FoldInputs ==
    UNION {[1..L -> 0..MaxByte] : L \in 0..MaxFoldLen}
      \cup {Marked(L, q) : L \in LongLens, q \in {0, 1, 2, 3, 4, 5, 8, 9, 16, 17, 32}}

\* Bitwise exclusive or of two bytes.
RECURSIVE Xor(_, _)
Xor(a, b) ==
    IF a = 0 THEN b
    ELSE IF b = 0 THEN a
    ELSE (((a % 2) + (b % 2)) % 2) + (2 * Xor(a \div 2, b \div 2))

\* Mutant of Divisible: the length check is skipped.
Divisible_unchecked(length, folds) == TRUE

\* fold_bytes: not (len(data) & ((1 << folds) - 1))
Divisible(length, folds) == length % (2 ^ folds) = 0

\* Mutant of InputAfter: fold_bytes works in the caller's buffer.
InputAfter_aliased(data, b) == IF Len(b) = Len(data) THEN b ELSE data

\* fold_bytes: b = bytearray(data) is a copy, so writes to b leave data alone.
InputAfter(data, b) == data

\* Mutant of FoldPass: neighbouring bytes are XOR-ed instead of the halves.
FoldPass_adjacent(b, length) ==
    LET half == length \div 2 IN
    [i \in 1..Len(b) |-> IF i <= half THEN Xor(b[(2 * i) - 1], b[2 * i])
                                      ELSE b[i]]

\* fold_bytes: for i in range(half): b[i] ^= b[half + i]
FoldPass(b, length) ==
    LET half == length \div 2 IN
    [i \in 1..Len(b) |-> IF i <= half THEN Xor(b[i], b[half + i]) ELSE b[i]]

InitFold ==
    /\ BridgeIdle
    /\ ExceptFoIdle
    /\ \E d \in FoldInputs, f \in FoldValues :
          fo = [pc |-> "call", data |-> d, input |-> d, folds |-> f,
                b |-> <<>>, length |-> 0, k |-> 0,
                result |-> "none", out |-> <<>>]

\* fold_bytes up to its loop: folds <= 0 returns a copy, a length that is not
\* a multiple of 2**folds raises ValueError.
fold_call ==
    /\ fo.pc = "call"
    /\ fo' = IF fo.folds <= 0
               THEN [fo EXCEPT !.pc = "done", !.result = "bytes",
                               !.out = fo.data]
             ELSE IF ~Divisible(Len(fo.data), fo.folds)
               THEN [fo EXCEPT !.pc = "done", !.result = "ValueError"]
             ELSE [fo EXCEPT !.pc = "loop", !.b = fo.data,
                             !.length = Len(fo.data), !.k = fo.folds]
    /\ UNCHANGED <<bridgeVars, exceptFo>>

\* One pass of `for _ in range(folds)`.
fold_pass ==
    /\ fo.pc = "loop"
    /\ fo.k > 0
    /\ LET nb == FoldPass(fo.b, fo.length) IN
       fo' = [fo EXCEPT !.b = nb, !.length = fo.length \div 2, !.k = @ - 1,
                        !.data = InputAfter(fo.data, nb)]
    /\ UNCHANGED <<bridgeVars, exceptFo>>

\* return bytes(b[:length])
fold_return ==
    /\ fo.pc = "loop"
    /\ fo.k = 0
    /\ fo' = [fo EXCEPT !.pc = "done", !.result = "bytes",
                        !.out = Take(fo.b, fo.length)]
    /\ UNCHANGED <<bridgeVars, exceptFo>>

NextFold ==
    \/ fold_call
    \/ fold_pass
    \/ fold_return

SpecFold == InitFold /\ [][NextFold]_vars

\* C22: for folds in 0..4 and a buffer whose length is a multiple of
\* 2^folds, fold returns len(data) >> folds bytes, fold(data, 0) is data,
\* and the input buffer is never modified.
C22_FoldShape ==
    /\ fo.pc # "off" => fo.data = fo.input
    /\ (fo.pc = "done" /\ fo.folds \in 0..MaxFolds
          /\ Len(fo.input) % (2 ^ fo.folds) = 0)
         => /\ fo.result = "bytes"
            /\ Len(fo.out) = ShiftRight(Len(fo.input), fo.folds)
            /\ fo.folds = 0 => fo.out = fo.input

\* Sixteen bytes with a nonzero byte in the second half were folded four
\* times into one byte.
C22_Witness ==
    /\ fo.pc = "done"
    /\ fo.folds = MaxFolds
    /\ Len(fo.input) = 16
    /\ fo.input[9] = 1
    /\ fo.out = <<1>>

\* fold_bytes(data, folds) as a function, for a length that passes the check.
RECURSIVE FoldTimes(_, _, _)
FoldTimes(b, length, k) ==
    IF k <= 0 THEN Take(b, length)
    ELSE FoldTimes(FoldPass(b, length), length \div 2, k - 1)

Fold(data, folds) == FoldTimes(data, Len(data), folds)

\* XOR of data[i + k * stride] for k = 0 .. count - 1 (i counted from 1).
RECURSIVE XorStride(_, _, _, _)
XorStride(data, i, stride, count) ==
    IF count = 0 THEN 0
    ELSE Xor(data[i], XorStride(data, i + stride, stride, count - 1))

\* C33: for a length L that is a multiple of 2^f (f in 0..4), byte i of
\* fold(data, f) is the XOR of data[i + k * (L >> f)] over k = 0 .. 2^f - 1;
\* and fold(fold(data, a), b) = fold(data, a + b).
C33_FoldIsStridedXor ==
    (fo.pc = "done" /\ fo.result = "bytes" /\ fo.folds \in 0..MaxFolds) =>
        LET L == Len(fo.input)
            w == ShiftRight(L, fo.folds)
        IN
        /\ Len(fo.out) = w
        /\ \A i \in 1..w :
              fo.out[i] = XorStride(fo.input, i, w, 2 ^ fo.folds)
        /\ \A a \in 0..fo.folds :
              Fold(Fold(fo.input, a), fo.folds - a) = fo.out

\* Four bytes 1, 0, 1, 1 folded twice: 1 xor 0 xor 1 xor 1 = 1.
C33_Witness ==
    /\ fo.pc = "done"
    /\ fo.folds = 2
    /\ fo.input = <<1, 0, 1, 1>>
    /\ fo.out = <<1>>

\* C23: fold with folds >= 1 fails with ValueError exactly when len(data) is
\* not a multiple of 2^folds, and then produces no result.
C23_FoldRejects ==
    (fo.pc = "done" /\ fo.folds >= 1)
      => /\ fo.result = "ValueError" <=> Len(fo.input) % (2 ^ fo.folds) # 0
         /\ fo.result = "ValueError" => fo.out = <<>>

\* Six bytes folded twice: rejected, nothing produced.
C23_Witness ==
    /\ fo.pc = "done"
    /\ fo.folds = 2
    /\ Len(fo.input) = 6
    /\ fo.result = "ValueError"
    /\ fo.out = <<>>

(***************************************************************************)
(* SpecDiscover: the two discoveries of BitBabbler.open(serial) over the   *)
(* USB devices present: FTDIDevice.find on the canonical VID:PID, then,    *)
(* when that returned None, FTDIDevice.find_any_bitbabbler.                *)
(***************************************************************************)
MaxDevices == 2     \* bound: USB devices on the bus

\* Serial descriptors; "unreadable" is a descriptor whose read raises.
DeviceSerials == {"BB01", "bb01", "unreadable"}
\* The serial argument; "none" is serial=None.
SerialArgs == {"none", "BB01", "XX99"}
Manufacturers == {"BitBabbler", "FTDI"}
Products == {"White BITBABBLER", "unreadable"}

UsbDevices ==
    [canonical : BOOLEAN, serial : DeviceSerials,
     manufacturer : Manufacturers, product : Products, endpoints : BOOLEAN]

\* str.lower() on the descriptor strings above.
Lower(t) ==
    CASE t = "BitBabbler" -> "bitbabbler"
      [] t = "White BITBABBLER" -> "white bitbabbler"
      [] t = "FTDI" -> "ftdi"
      [] t = "BB01" -> "bb01"
      [] OTHER -> t

\* "bitbabbler" in text, for the lowered strings above.
ContainsName(text) == text \in {"bitbabbler", "white bitbabbler"}

\* find_any_bitbabbler: both strings are read in one try; if either read
\* raises both become "".
ScanText(d) ==
    IF d.product = "unreadable" THEN <<"", "">>
    ELSE <<Lower(d.manufacturer), Lower(d.product)>>

\* Mutant of SerialMatches: serials compared without regard to case.
SerialMatches_folded(d, serial) ==
    d.serial # "unreadable" /\ Lower(d.serial) = Lower(serial)

\* usb.util.get_string(d, d.iSerialNumber) == serial; a read that raises is
\* a mismatch.
SerialMatches(d, serial) == d.serial # "unreadable" /\ d.serial = serial

\* usb.core.find(custom_match=_match, idVendor, idProduct): the first device
\* with the canonical VID:PID that matches (0: None).
FirstCanonical(devs, serial) ==
    LET ok == {i \in 1..Len(devs) :
                 /\ devs[i].canonical
                 /\ serial # "none" => SerialMatches(devs[i], serial)}
    IN IF ok = {} THEN 0 ELSE CHOOSE i \in ok : \A j \in ok : i <= j

InitDiscover ==
    /\ BridgeIdle
    /\ ExceptFdIdle
    /\ \E k \in 0..MaxDevices :
       \E devs \in [1..k -> UsbDevices], sa \in SerialArgs :
          fd = [pc |-> "find", serial |-> sa, devices |-> devs, i |-> 0,
                found |-> 0, by |-> "none", result |-> "none"]

\* FTDIDevice.find: None, the handle of the first matching device, or
\* RuntimeError when that device has no bulk IN/OUT endpoint pair.
find ==
    /\ fd.pc = "find"
    /\ LET m == FirstCanonical(fd.devices, fd.serial) IN
       fd' = IF m = 0 THEN [fd EXCEPT !.pc = "scan", !.i = 1]
             ELSE IF ~fd.devices[m].endpoints
             THEN [fd EXCEPT !.pc = "done", !.result = "raise"]
             ELSE [fd EXCEPT !.pc = "done", !.result = "handle",
                             !.found = m, !.by = "find"]
    /\ UNCHANGED <<bridgeVars, exceptFd>>

\* find_any_bitbabbler: one pass of `for dev in usb.core.find(find_all=True)`,
\* or the loop's end: return None.
find_any_bitbabbler ==
    /\ fd.pc = "scan"
    /\ fd' = IF fd.i > Len(fd.devices)
             THEN [fd EXCEPT !.pc = "done", !.result = "none"]
             ELSE LET d == fd.devices[fd.i]
                      text == ScanText(d)
                  IN IF ~(ContainsName(text[1]) \/ ContainsName(text[2]))
                     THEN [fd EXCEPT !.i = @ + 1]
                     ELSE IF fd.serial # "none" /\ ~SerialMatches(d, fd.serial)
                     THEN [fd EXCEPT !.i = @ + 1]
                     ELSE IF ~d.endpoints
                     THEN [fd EXCEPT !.i = @ + 1]
                     ELSE [fd EXCEPT !.pc = "done", !.result = "handle",
                                     !.found = fd.i, !.by = "find_any"]
    /\ UNCHANGED <<bridgeVars, exceptFd>>

NextDiscover ==
    \/ find
    \/ find_any_bitbabbler

SpecDiscover == InitDiscover /\ [][NextDiscover]_vars

\* C25: with a serial supplied, neither discovery returns a device whose
\* serial descriptor is not exactly that serial (an unreadable serial is a
\* mismatch); the string scan only returns a device whose manufacturer or
\* product string contains the marketing name, in any case of letters.
C25_SerialAndName ==
    fd.pc # "off" /\ fd.found # 0 =>
        LET d == fd.devices[fd.found] IN
        /\ fd.serial # "none" => d.serial = fd.serial
        /\ fd.by = "find_any" =>
              \/ d.manufacturer = "BitBabbler"
              \/ d.product = "White BITBABBLER"

\* Serial BB01 asked for: the scan passed over a BitBabbler with serial bb01
\* and returned the one with serial BB01, named only in its product string.
C25_Witness ==
    /\ fd.pc = "done"
    /\ fd.serial = "BB01"
    /\ fd.by = "find_any"
    /\ fd.found = 2
    /\ fd.devices[1].serial = "bb01"
    /\ fd.devices[1].manufacturer = "BitBabbler"
    /\ fd.devices[1].product # "unreadable"
    /\ fd.devices[1].endpoints
    /\ fd.devices[2].manufacturer = "FTDI"

\* Device i is one a discovery path selects: canonical VID:PID or a
\* BitBabbler string, and the serial asked for (if any).
Selected(i) ==
    LET d == fd.devices[i] IN
    /\ \/ d.canonical
       \/ ContainsName(ScanText(d)[1])
       \/ ContainsName(ScanText(d)[2])
    /\ fd.serial # "none" => SerialMatches(d, fd.serial)

\* C37: on both discovery paths a matching device without a bulk-IN or
\* bulk-OUT endpoint makes discovery fail with a driver error: it is never
\* reported as not-found and never yields a handle.
C37_MissingEndpoints ==
    fd.pc = "done" =>
        /\ fd.found # 0 => fd.devices[fd.found].endpoints
        /\ fd.result = "none" =>
              \A i \in 1..Len(fd.devices) :
                  Selected(i) => fd.devices[i].endpoints

(***************************************************************************)
(* SpecDriver: one BitBabbler object from its construction on: the bitrate *)
(* and latency it derives, set_latency during bring-up, the configuration  *)
(* command, and read_entropy calls with the bytes they write.              *)
(***************************************************************************)
MaxEntropyCalls == 2    \* bound: read_entropy calls on the object

BaseClock == 30000000   \* real_bitrate, init: 30_000_000
MinBitrate == 458       \* real_bitrate: if bitrate <= 458
DefaultBitrate == 2500000   \* __init__: bitrate or 2_500_000
MaxLatency == 255       \* __init__, set_latency: 255

\* The bitrate argument of BitBabbler(...); 0 stands for None as well
\* (`bitrate or 2_500_000`).
BitrateArgs ==
    {-5, 0, 1, 457, 458, 459, 460, 1000, 9600, 65535, 1000000, 2500000,
     7000000, 14999999, 15000000, 15000001, 29999999, 30000000, 30000001,
     1000000000}

\* wMaxPacketSize of the bulk IN endpoint.
PacketSizes == {8, 64, 512, 1024}

\* read_entropy(nbytes) arguments, around both ends of 1..65536.
EntropyNValues == {-1, 0, 1, 2, 255, 256, 257, 65535, 65536, 65537}

\* Mutant of real_bitrate: the lower clamp is 1 Hz.
real_bitrate_low_clamp(bitrate) ==
    IF bitrate >= BaseClock THEN BaseClock
    ELSE IF bitrate <= 1 THEN 1
    ELSE BaseClock \div (BaseClock \div bitrate)

\* Mutant of real_bitrate: clamped but not quantized.
real_bitrate_unquantized(bitrate) ==
    IF bitrate >= BaseClock THEN BaseClock
    ELSE IF bitrate <= MinBitrate THEN MinBitrate
    ELSE bitrate

real_bitrate(bitrate) ==
    IF bitrate >= BaseClock THEN BaseClock
    ELSE IF bitrate <= MinBitrate THEN MinBitrate
    ELSE BaseClock \div (BaseClock \div bitrate)

\* __init__: packet_ms = (wMaxPacketSize * 8000) / bitrate;
\* max(1, min(255, int(packet_ms) + 2)).  int() of the positive float
\* quotient is the floored quotient.
default_latency(packet, bitrate) ==
    Max(1, Min(MaxLatency, ((packet * 8000) \div bitrate) + 2))

\* x & 0xFF and (x >> 8) & 0xFF for x >= 0.
LowByte(x) == x % 256
HighByte(x) == (x \div 256) % 256

\* init: clk_div = 30_000_000 // self.bitrate - 1
clk_div(bitrate) == (BaseClock \div bitrate) - 1

\* Mutant of EntropyCmd: the length field holds nbytes, not nbytes - 1.
EntropyCmd_length(nbytes) ==
    <<32, LowByte(nbytes), HighByte(nbytes), 135>>

\* read_entropy: [MPSSE_DATA_BYTE_IN_POS_MSB, (nbytes - 1) & 0xFF,
\* ((nbytes - 1) >> 8) & 0xFF, MPSSE_SEND_IMMEDIATE]
EntropyCmd(nbytes) ==
    <<32, LowByte(nbytes - 1), HighByte(nbytes - 1), 135>>

InitDriver ==
    /\ BridgeIdle
    /\ ExceptDrIdle
    /\ \E b \in BitrateArgs, ps \in PacketSizes :
          dr = [pc |-> "new", arg |-> b, packet |-> ps, bitrate |-> 0,
                latency |-> 0, divisor |-> <<>>, n |-> 0, calls |-> 0,
                log |-> <<>>, result |-> "none"]

\* BitBabbler.__init__ without a latency override.
BitBabbler_new ==
    /\ dr.pc = "new"
    /\ LET br == real_bitrate(IF dr.arg = 0 THEN DefaultBitrate ELSE dr.arg)
       IN dr' = [dr EXCEPT !.pc = "constructed", !.bitrate = br,
                           !.latency = default_latency(dr.packet, br)]
    /\ UNCHANGED <<bridgeVars, exceptDr>>

\* init_mpsse: self.set_latency(latency_ms); ValueError outside 1..255.
set_latency ==
    /\ dr.pc = "constructed"
    /\ dr' = IF dr.latency < 1 \/ dr.latency > MaxLatency
             THEN [dr EXCEPT !.pc = "failed", !.result = "ValueError"]
             ELSE [dr EXCEPT !.pc = "mpsse"]
    /\ UNCHANGED <<bridgeVars, exceptDr>>

\* BitBabbler.init: the configuration command with the clock divisor's two
\* bytes after MPSSE_SET_CLK_DIVISOR.
init_config ==
    /\ dr.pc = "mpsse"
    /\ LET d == clk_div(dr.bitrate) IN
       dr' = [dr EXCEPT !.pc = "ready",
                        !.divisor = <<LowByte(d), HighByte(d)>>]
    /\ UNCHANGED <<bridgeVars, exceptDr>>

\* read_entropy(nbytes) up to its write: ValueError outside 1..65536,
\* otherwise self.write(cmd).
read_entropy_write ==
    /\ dr.pc = "ready"
    /\ dr.calls < MaxEntropyCalls
    /\ \E n \in EntropyNValues :
          dr' = IF ~read_entropy_accepts(n)
                THEN [dr EXCEPT !.calls = @ + 1, !.n = n,
                                !.result = "ValueError"]
                ELSE [dr EXCEPT !.calls = @ + 1, !.n = n, !.pc = "written",
                                !.result = "none",
                                !.log = Append(@, EntropyCmd(n))]
    /\ UNCHANGED <<bridgeVars, exceptDr>>

\* read_entropy: return self.read_data(nbytes)
read_entropy_read ==
    /\ dr.pc = "written"
    /\ dr' = [dr EXCEPT !.pc = "ready", !.result = "bytes",
                        !.log = Append(@, <<dr.n>>)]
    /\ UNCHANGED <<bridgeVars, exceptDr>>

NextDriver ==
    \/ BitBabbler_new
    \/ set_latency
    \/ init_config
    \/ read_entropy_write
    \/ read_entropy_read

SpecDriver == InitDriver /\ [][NextDriver]_vars

\* A read_entropy call is entered in this step.
EntropyCallStep == dr'.calls = dr.calls + 1

C32_Step ==
    /\ EntropyCallStep =>
          IF dr'.n >= 1 /\ dr'.n <= 65536
          THEN \E lo \in 0..255, hi \in 0..255 :
                  /\ dr'.log = Append(dr.log, <<32, lo, hi, 135>>)
                  /\ lo = (dr'.n - 1) % 256
                  /\ hi = (dr'.n - 1) \div 256
                  /\ lo + 256 * hi + 1 = dr'.n
                  /\ dr'.pc = "written"
          ELSE dr'.log = dr.log /\ dr'.result = "ValueError"
    /\ (dr.pc = "written" /\ dr'.pc # "written") =>
          dr'.log = Append(dr.log, <<dr.n>>)

\* C32: read_entropy(n) for n in 1..65536 writes exactly one command
\* [0x20, (n-1) & 0xFF, (n-1) >> 8, 0x87], whose middle bytes are n - 1 as a
\* little-endian 16-bit value, and only then calls read_data(n); for any
\* other n it fails with ValueError and writes nothing.
C32_EntropyCommand == [][C32_Step]_vars

\* read_entropy(65536) wrote 0x20 0xFF 0xFF 0x87 and then read 65536 bytes.
C32_Witness ==
    /\ dr.pc = "ready"
    /\ dr.n = 65536
    /\ dr.result = "bytes"
    /\ dr.log = <<<<32, 255, 255, 135>>, <<65536>>>>

\* C34: without a latency override the latency timer is
\* ceil(maxPacketSize * 8000 / bitrate) + 2 clamped to 1..255, so set_latency
\* never raises.
C34_DefaultLatency ==
    dr.pc \notin {"off", "new"} =>
        /\ dr.latency =
              Max(1, Min(255,
                  (((dr.packet * 8000) + dr.bitrate - 1) \div dr.bitrate) + 2))
        /\ dr.latency \in 1..255
        /\ dr.pc # "failed"

C36_DivisorFits ==
    dr.pc \in {"ready", "written"} =>
        LET d == (30000000 \div dr.bitrate) - 1 IN
        /\ d \in 0..65535
        /\ dr.divisor[1] + 256 * dr.divisor[2] = d

\* The slowest bitrate, 458 Hz: divisor 65501 = 0xFFDD.
C36_Witness ==
    /\ dr.pc = "ready"
    /\ dr.bitrate = 458
    /\ dr.divisor = <<221, 255>>

(***************************************************************************)
(* SpecApp: RNGCollectorApp's start, pause and stop actions and its        *)
(* collection task.  The actions are message handlers and run one at a     *)
(* time; the collection task runs between them and yields at its awaits.   *)
(***************************************************************************)
MaxStarts == 2      \* bound: action_start calls that pass validation
MaxSamples == 2     \* bound: samples recorded per collection

AvailabilityAttempts == 3   \* action_start: for attempt in range(3)

\* The bits field: not a number, not a multiple of 8, zero, a sample size.
BitsInputs == {"x", "7", "0", "8"}

\* int(bits_str) for the strings that parse.
BitsValue(b) == CASE b = "7" -> 7 [] b = "0" -> 0 [] OTHER -> 8
\* The device field: nothing selected, a key not in DEVICES, a device.
DeviceInputs == {"none", "unknown", "known"}

\* action_start's validation: device selected and known, bits an integer
\* divisible by 8, frequency > 0, duration >= 0.
Rejected(device, bits, freq_ok, duration_ok) ==
    \/ device # "known"
    \/ bits = "x"
    \/ BitsValue(bits) % 8 # 0
    \/ ~freq_ok
    \/ ~duration_ok

\* Mutant of SleepsAfter: the retry loop also waits after its last attempt.
SleepsAfter_every(attempt) == TRUE

\* action_start: if attempt < 2: await asyncio.sleep(0.2)
SleepsAfter(attempt) == attempt < AvailabilityAttempts - 1

InitApp ==
    /\ BridgeIdle
    /\ ExceptAppIdle
    /\ app = [pc |-> "idle", is_collecting |-> FALSE, is_paused |-> FALSE,
              task |-> "none", starts |-> 0, invalid |-> FALSE,
              attempt |-> 0, checks |-> 0, sleeps |-> 0, last |-> "none",
              created |-> FALSE, sample_count |-> 0, rows |-> 0,
              requests |-> 0]

\* action_start up to the availability loop: return when collecting or when
\* an input is rejected.
action_start ==
    /\ app.pc = "idle"
    /\ ~app.is_collecting
    /\ app.starts < MaxStarts
    /\ \E d \in DeviceInputs, b \in BitsInputs, f \in BOOLEAN, u \in BOOLEAN :
          LET bad == Rejected(d, b, f, u)
              r == [app EXCEPT !.invalid = bad, !.attempt = 0, !.checks = 0,
                               !.sleeps = 0, !.last = "none",
                               !.created = FALSE]
          IN app' = IF bad THEN r
                    ELSE [r EXCEPT !.pc = "check", !.starts = @ + 1]
    /\ UNCHANGED <<bridgeVars, exceptApp>>

\* One pass of `for attempt in range(3)`: is_device_available() returns True
\* (break), returns False or raises; after the last pass the action returns.
action_start_check ==
    /\ app.pc = "check"
    /\ \E o \in {"true", "false", "raise"} :
          LET r == [app EXCEPT !.checks = @ + 1, !.last = o] IN
          app' = IF o = "true" THEN [r EXCEPT !.pc = "begin"]
                 ELSE IF SleepsAfter(app.attempt) THEN [r EXCEPT !.pc = "sleep"]
                 ELSE IF app.attempt + 1 < AvailabilityAttempts
                 THEN [r EXCEPT !.attempt = @ + 1]
                 ELSE [r EXCEPT !.pc = "idle"]
    /\ UNCHANGED <<bridgeVars, exceptApp>>

\* await asyncio.sleep(0.2), then the next pass or the end of the loop.
action_start_sleep ==
    /\ app.pc = "sleep"
    /\ app' = IF app.attempt + 1 < AvailabilityAttempts
              THEN [app EXCEPT !.pc = "check", !.attempt = @ + 1,
                               !.sleeps = @ + 1]
              ELSE [app EXCEPT !.pc = "idle", !.sleeps = @ + 1]
    /\ UNCHANGED <<bridgeVars, exceptApp>>

\* action_start after a successful check: reset state, create the task.
action_start_begin ==
    /\ app.pc = "begin"
    /\ app' = [app EXCEPT !.pc = "idle", !.is_collecting = TRUE,
                          !.is_paused = FALSE, !.sample_count = 0,
                          !.rows = 0, !.requests = 0, !.task = "top",
                          !.created = TRUE]
    /\ UNCHANGED <<bridgeVars, exceptApp>>

\* action_pause: toggles is_paused while collecting.
action_pause ==
    /\ app.pc = "idle"
    /\ app.is_collecting
    /\ app' = [app EXCEPT !.is_paused = ~@]
    /\ UNCHANGED <<bridgeVars, exceptApp>>

\* action_stop: clears both flags, cancels the task and awaits it.
action_stop ==
    /\ app.pc = "idle"
    /\ app.is_collecting
    /\ app' = [app EXCEPT !.is_collecting = FALSE, !.is_paused = FALSE,
                          !.task = "none"]
    /\ UNCHANGED <<bridgeVars, exceptApp>>

\* _collection_loop at `while self.is_collecting`: sleep while paused, else
\* request a sample with get_bytes_async.
collection_loop_top ==
    /\ app.task = "top"
    /\ app.sample_count < MaxSamples
    /\ ~app.is_paused
    /\ app' = [app EXCEPT !.task = "await_bytes", !.requests = @ + 1]
    /\ UNCHANGED <<bridgeVars, exceptApp>>

\* get_bytes_async returned: the sample is counted, shown and written to the
\* CSV file; then the loop stops itself (duration exceeded) or sleeps.  An
\* exception is reported and stops the collection.
collection_loop_sample ==
    /\ app.task = "await_bytes"
    /\ \E o \in {"ok", "ok_last", "error"} :
          LET counted == [app EXCEPT !.sample_count = @ + 1, !.rows = @ + 1]
          IN app' = CASE o = "ok" -> [counted EXCEPT !.task = "sleep"]
                      [] o = "ok_last" ->
                           [counted EXCEPT !.is_collecting = FALSE,
                                           !.is_paused = FALSE,
                                           !.task = "none"]
                      [] OTHER ->
                           [app EXCEPT !.is_collecting = FALSE,
                                       !.is_paused = FALSE, !.task = "none"]
    /\ UNCHANGED <<bridgeVars, exceptApp>>

\* await asyncio.sleep(self.frequency) ends.
collection_loop_sleep ==
    /\ app.task = "sleep"
    /\ app' = [app EXCEPT !.task = "top"]
    /\ UNCHANGED <<bridgeVars, exceptApp>>

NextApp ==
    \/ action_start
    \/ action_start_check
    \/ action_start_sleep
    \/ action_start_begin
    \/ action_pause
    \/ action_stop
    \/ collection_loop_top
    \/ collection_loop_sample
    \/ collection_loop_sleep

SpecApp == InitApp /\ [][NextApp]_vars

\* C38: action_start checks availability at most 3 times, stops at the
\* first success and waits only between attempts; when no attempt succeeds
\* or an input is rejected, is_collecting stays false and no task is
\* created; a task is created only after a check returned true.
C38_StartRetries ==
    app.pc # "off" =>
        /\ app.checks <= 3
        /\ app.sleeps <= 2
        /\ app.sleeps <= app.checks
        /\ app.pc = "check" => app.sleeps = app.checks /\ app.last # "true"
        /\ app.pc = "begin" => app.last = "true" /\ app.sleeps = app.checks - 1
        /\ (app.pc = "idle" /\ app.checks > 0) => app.sleeps = app.checks - 1
        /\ app.created => app.last = "true"
        /\ (app.pc = "idle" /\ app.last \in {"false", "raise"}) =>
              /\ app.checks = 3
              /\ ~app.is_collecting
              /\ app.task = "none"
        /\ app.invalid =>
              /\ app.checks = 0
              /\ ~app.created
              /\ app.pc = "idle" => ~app.is_collecting /\ app.task = "none"

\* Two checks failed, the third succeeded after two waits, the task started.
C38_Witness ==
    /\ app.pc = "idle"
    /\ app.created
    /\ app.checks = 3
    /\ app.sleeps = 2
    /\ app.is_collecting
    /\ app.task = "top"

C40_Step ==
    (app.is_paused /\ app'.is_paused) =>
        /\ app'.requests = app.requests
        /\ app'.sample_count = app.sample_count
        /\ app'.rows = app.rows

\* C40: while is_paused is set the collection loop requests no sample and
\* records none (sample_count and the CSV file stay unchanged), also when a
\* get_bytes_async request was in flight at the moment of pausing; and
\* is_paused is only true while is_collecting is true.
C40_PauseHolds == [](app.pc # "off" => (app.is_paused => app.is_collecting))
                    /\ [][C40_Step]_vars

(***************************************************************************)
(* Properties of the concurrency bridge.                                   *)
(***************************************************************************)
\* The synchronous body of call c has started on a worker.
Started(c) == calls[c].pc # "idle"

\* Program positions inside a physical-hardware operation: discovery/open and
\* bring-up, entropy read, device close.
HardwarePcs == {"open", "read", "close_dev"}

WorkersInHardware ==
    {e \in 1..numExec : running[e] # 0 /\ calls[running[e]].pc \in HardwarePcs}

LoopInHardware == loopPc \in {"close_dev", "avail_open", "avail_close"}

HardwareOpsInProgress ==
    Cardinality(WorkersInHardware) + (IF LoopInHardware THEN 1 ELSE 0)

LiveHandles == {h \in Handles : handle[h] = "live"}

\* C1: in every reachable state at most one physical-hardware operation
\* (discovery/open, bring-up, entropy read, device close) of the backend is in
\* progress, whatever the interleaving of the asynchronous wrappers, the
\* abandoned worker call, the cancellation close() and the close() /
\* is_device_available() calls made on the event-loop thread.
C1_OneHardwareOperation ==
    backend # "pseudo_rng" => HardwareOpsInProgress <= 1

\* C3: for BitBabbler, a read error clears the cache before the error is
\* surfaced, so the cache never holds a handle on which a read has failed and
\* no get_bytes reads from such a handle: the next get_bytes opens afresh.
C3_FailedHandleNeverReused ==
    backend = "bitbabbler_rng" =>
        /\ cached_device \notin failed
        /\ \A c \in CallIds : calls[c].pc = "read" => calls[c].dev \notin failed

\* C3 witness: a read has failed and a later get_bytes has opened and cached
\* another device.
C3_Witness ==
    /\ backend = "bitbabbler_rng"
    /\ failed # {}
    /\ cached_device # 0
    /\ \E c \in CallIds : calls[c].pc = "read" /\ calls[c].dev = cached_device

\* C4: cancelling an in-flight data call (get_bytes_async and its siblings)
\* does not interrupt the synchronous call running on the worker, which leaves
\* the running state only by finishing; the wrapper runs close() exactly once
\* and re-raises, so the caller observes cancellation, never a value or a
\* device error.
C4_CancelStep ==
    \A c \in CallIds :
        /\ calls[c].fut = "running" => calls'[c].fut \in {"running", "finished"}
        /\ (calls[c].task = "awaiting" /\ calls'[c].task = "must_cancel"
            /\ calls[c].fut = "running")
               => /\ calls'[c].fut = "running"
                  /\ calls'[c].pc = calls[c].pc
                  /\ running' = running
        /\ (calls[c].fn = "get_bytes" /\ calls[c].cancelled)
               => calls'[c].closes <= 1

C4_CancelOutcome ==
    \A c \in CallIds :
        (calls[c].fn = "get_bytes" /\ calls[c].cancelled)
            => IF calls[c].task = "done"
               THEN calls[c].outcome = "cancelled" /\ calls[c].closes = 1
               ELSE calls[c].outcome = "none" /\ calls[c].closes = 0

C4_Cancellation == [][C4_CancelStep]_vars /\ []C4_CancelOutcome

\* C4 witness: a call cancelled while its body was running; the body ran to
\* its end and produced bytes, and the caller observed cancellation.
C4_Witness ==
    \E c \in CallIds :
        /\ calls[c].fn = "get_bytes"
        /\ calls[c].cancelled
        /\ calls[c].fut = "finished"
        /\ calls[c].res = "value"
        /\ calls[c].task = "done"
        /\ calls[c].closes = 1

\* C5: once an asynchronous BitBabbler call has been cancelled (its wrapper
\* has run close()) and the abandoned synchronous call has finished, and no
\* later call has started, no device is cached; and no worker call reads from
\* a handle that close() has already released.
C5_CleanAfterCancel ==
    backend = "bitbabbler_rng" =>
        /\ \A c \in CallIds :
              (/\ calls[c].fn = "get_bytes"
               /\ calls[c].cancelled
               /\ calls[c].task = "done"
               /\ calls[c].fut = "finished"
               /\ \A d \in CallIds : d > c => ~Started(d))
                  => cached_device = 0
        /\ \A c \in CallIds :
              calls[c].pc = "read" => handle[calls[c].dev] # "released"

\* C6: at most one live (opened, not yet released) transport handle exists on
\* the BitBabbler device, whatever sequence of is_device_available, get_bytes
\* and close has run.
C6_OneLiveHandle ==
    backend = "bitbabbler_rng" => Cardinality(LiveHandles) <= 1

\* C7: the device cache (_cached_device, _rdseed) is read, constructed and
\* cleared only by the backend's worker thread.
C7_CacheOnlyOnWorker == accessors \subseteq {"worker"}

C9_SubmissionOrder ==
    \A a, b \in CallIds :
        (a < b /\ Started(b))
            => Started(a) \/ calls[a].fut \in {"cancelled", "rejected"}

\* A worker's read (read_entropy_folded, hence read_entropy) runs in this
\* step on a BitBabbler that is live: opened, bring-up done, not closed.
C27_ReadStep ==
    \A c \in CallIds :
        (/\ c \in DOMAIN calls
         /\ calls[c].fn = "get_bytes"
         /\ calls[c].pc = "read"
         /\ calls'[c].pc = "done")
           => handle[calls[c].dev] = "live"

\* C27: every entropy read is issued on a synchronized driver: read_entropy
\* is never executed on a BitBabbler that is uninitialized or already closed.
C27_ReadOnLiveDriver == [][backend = "bitbabbler_rng" => C27_ReadStep]_vars

\* A call submitted after a close_async that has completed.
AfterCompletedClose(a) ==
    \E c \in DOMAIN calls :
        /\ c < a
        /\ calls[c].fn = "close"
        /\ calls[c].task = "done"
        /\ calls[c].fut = "finished"

\* C39: for each backend, a *_async call made after close_async() has
\* completed is scheduled; it is never rejected because the executor was
\* shut down.
C39_ScheduledAfterClose ==
    \A a \in DOMAIN calls :
        AfterCompletedClose(a) => calls[a].fut # "rejected"

====
